---- MODULE Spec2Model ----
(***************************************************************************)
(* A model of the tabular transformation engine of xpatterns-xframe:       *)
(* XFrameImpl (src/xpatterns/xframe_impl.py) with the helpers it shares    *)
(* with StdXFrameImpl (src/xpatterns/stdXFrameImpl.py).                     *)
(*                                                                         *)
(* A table is a list of column names, a parallel list of column types and  *)
(* a row sequence (the RDD).  The RDD is modelled as a TLA+ sequence in    *)
(* position order (the order zipWithIndex assigns); an operation whose     *)
(* result order the substrate leaves open (join, groupByKey) is compared   *)
(* as a bag of rows.                                                       *)
(*                                                                         *)
(* A Python value is a record [t |-> <type name>, v |-> <payload>], so     *)
(* that None, NaN, 0, 0.0, '' and False stay different values.             *)
(***************************************************************************)
EXTENDS Bags, FiniteSets, Integers, Sequences, TLC

VARIABLES
    col_names,      \* self.col_names
    column_types,   \* self.column_types
    rdd,            \* self.rdd, the row sequence
    has_iter_pos,   \* whether the attribute self.iter_pos exists yet
    iter_pos,       \* self.iter_pos
    materialized,   \* self.materialized
    last,           \* the last call: its name, arguments and what it returned
    nops,           \* number of calls made so far that changed the table object
    args            \* the arguments the caller has prepared for its calls

vars == <<col_names, column_types, rdd, has_iter_pos, iter_pos, materialized, last, nops, args>>

(***************************************************************************)
(* Bounds of the model.                                                    *)
(***************************************************************************)
MaxRows == 3
MaxOps == 3
MaxBatch == 3
MaxTableOps == 2

(***************************************************************************)
(* Python values.                                                          *)
(***************************************************************************)
None == [t |-> "NoneType", v |-> 0]
NaN == [t |-> "nan", v |-> 0]
PyInt(n) == [t |-> "int", v |-> n]
PyFloat(n) == [t |-> "float", v |-> n]
PyStr(s) == [t |-> "str", v |-> s]
PyBool(b) == [t |-> "bool", v |-> b]
PyList(s) == [t |-> "list", v |-> s]
PyDict(s) == [t |-> "dict", v |-> s]

\* bool(x): the truth value Python gives x in a condition
truth(x) ==
    CASE x.t = "NoneType" -> FALSE
      [] x.t = "nan" -> TRUE
      [] x.t = "int" -> x.v # 0
      [] x.t = "float" -> x.v # 0
      [] x.t = "str" -> x.v # ""
      [] x.t = "bool" -> x.v
      [] x.t = "list" -> Len(x.v) > 0
      [] x.t = "dict" -> Len(x.v) > 0

is_missing(x) == x.t = "NoneType" \/ x.t = "nan"

is_missing_or_empty(val) ==
    \/ is_missing(val)
    \/ (val.t \in {"list", "dict"} /\ Len(val.v) = 0)

(***************************************************************************)
(* Sequence helpers standing for the substrate's primitives.               *)
(***************************************************************************)
Range(s) == {s[i] : i \in 1..Len(s)}

Min(a, b) == IF a < b THEN a ELSE b

Max(a, b) == IF a > b THEN a ELSE b

\* rdd.zipWithIndex(): pairs (element, zero-based position)
zipWithIndex(s) == [i \in 1..Len(s) |-> <<s[i], i - 1>>]

\* rdd.keys() / rdd.values() of a sequence of pairs
keys(s) == [i \in 1..Len(s) |-> s[i][1]]

values(s) == [i \in 1..Len(s) |-> s[i][2]]

\* the table a call returns through _rv
Table(names, types, rows) == [col_names |-> names, column_types |-> types, rdd |-> rows]

Self == Table(col_names, column_types, rdd)

(***************************************************************************)
(* Safe zip.  The index join leaves the pairs hash-partitioned on the      *)
(* index: with num_partitions partitions the pairs come out partition by   *)
(* partition, index i lying in partition i % num_partitions.  Only the     *)
(* indexes present on both sides are paired.                               *)
(***************************************************************************)
MaxPartitions == 2

safeZip(left, right, num_partitions) ==
    LET ix_left == [i \in 1..Len(left) |-> <<zipWithIndex(left)[i][2], zipWithIndex(left)[i][1]>>]
        ix_right == [i \in 1..Len(right) |-> <<zipWithIndex(right)[i][2], zipWithIndex(right)[i][1]>>]
        n == Min(Len(ix_left), Len(ix_right))
        joined == [i \in 1..n |-> <<ix_left[i][1], <<ix_left[i][2], ix_right[i][2]>>>>]
        partition(q) == SelectSeq(joined, LAMBDA kv : kv[1] % num_partitions = q)
        RECURSIVE collect(_)
        collect(q) == IF q = num_partitions THEN <<>> ELSE partition(q) \o collect(q + 1)
    IN  values(collect(0))

(***************************************************************************)
(* Chunked iterator.                                                       *)
(***************************************************************************)
iter_window(rows, pos, elems) ==
    LET low == pos
        high == pos + elems
        buf_rdd == zipWithIndex(rows)
        filtered_rdd == SelectSeq(buf_rdd, LAMBDA row : row[2] >= low /\ row[2] < high)
    IN  keys(filtered_rdd)

begin_iterator ==
    /\ nops < MaxOps
    /\ has_iter_pos' = TRUE
    /\ iter_pos' = -1
    /\ last' = [op |-> "begin_iterator", rk |-> "none"]
    /\ nops' = nops + 1
    /\ UNCHANGED <<col_names, column_types, rdd, materialized, args>>

\* k counts the calls made with the same batch size since begin_iterator
\* (0 when the succession was broken by a call with another batch size).
iterator_get_next ==
    /\ nops < MaxOps
    /\ has_iter_pos
    /\ \E elems \in 1..MaxBatch :
         /\ last' = [op |-> "iterator_get_next", rk |-> "rows",
                     n |-> elems,
                     k |-> IF last.op = "begin_iterator" THEN 1
                           ELSE IF last.op = "iterator_get_next" /\ last.n = elems /\ last.k > 0
                                THEN last.k + 1 ELSE 0,
                     pos0 |-> iter_pos,
                     ret |-> iter_window(rdd, iter_pos, elems)]
         /\ iter_pos' = iter_pos + elems
    /\ nops' = nops + 1
    /\ UNCHANGED <<col_names, column_types, rdd, has_iter_pos, materialized, args>>

(***************************************************************************)
(* save_as_csv: the rows are pulled through the chunked iterator in        *)
(* batches of elems_at_a_time rows.  The source uses 10000; the model      *)
(* scales the batch down so that a table can be longer than one batch.     *)
(***************************************************************************)
elems_at_a_time == 2

RECURSIVE join_fields(_)
join_fields(fields) ==
    IF Len(fields) = 0 THEN ""
    ELSE IF Len(fields) = 1 THEN fields[1]
    ELSE fields[1] \o "," \o join_fields(Tail(fields))

\* what csv.writer writes for one field
csv_field(x) ==
    CASE x.t = "NoneType" -> ""
      [] x.t = "int" -> ToString(x.v)
      [] x.t = "str" -> x.v
      [] OTHER -> "?"

csv_line(row) == join_fields([i \in 1..Len(row) |-> csv_field(row[i])]) \o "\r\n"

\* to_csv for a call without dialect parameters: the text csv.writer
\* produces for the row ('' only when the writer raises, which no value
\* of the model makes it do)
to_csv(row) == csv_line(row)

\* f.write(line) for every row of a batch; writing '' adds nothing
write_rows(file, batch) ==
    LET lines == [i \in 1..Len(batch) |-> to_csv(batch[i])]
    IN  file \o SelectSeq(lines, LAMBDA line : line # "")

\* the while(True) loop, entered with the cursor at pos before the fetch
\* of the next batch
RECURSIVE csv_loop(_, _, _)
csv_loop(rows, pos, file) ==
    LET ret == iter_window(rows, pos, elems_at_a_time)
        pos2 == pos + elems_at_a_time
        file2 == write_rows(file, ret)
    IN  IF Len(ret) = elems_at_a_time
        THEN csv_loop(rows, pos2, file2)
        ELSE [file |-> file2, iter_pos |-> pos2]

\* save_as_csv(path) with no dialect parameters; begin_iterator() sets the
\* cursor to -1 before the first fetch
save_as_csv ==
    /\ nops < MaxOps
    /\ LET out == csv_loop(rdd, -1, <<>>)
       IN  /\ last' = [op |-> "save_as_csv", rk |-> "file", ret |-> out.file]
           /\ iter_pos' = out.iter_pos
    /\ has_iter_pos' = TRUE
    /\ nops' = nops + 1
    /\ UNCHANGED <<col_names, column_types, rdd, materialized, args>>

(***************************************************************************)
(* Specification of the iterator protocol: any table of one int column.   *)
(***************************************************************************)
RECURSIVE SeqsUpTo(_, _)
SeqsUpTo(S, n) ==
    IF n = 0 THEN {<<>>}
    ELSE LET shorter == SeqsUpTo(S, n - 1)
         IN  shorter \cup {Append(s, x) : s \in {t \in shorter : Len(t) = n - 1}, x \in S}

NoCall == [op |-> "none", rk |-> "none"]

NoArgs == [none |-> TRUE]

IterRows == {<<PyInt(1)>>, <<PyInt(2)>>, <<None>>}

InitIter ==
    /\ col_names = <<"a">>
    /\ column_types = <<"int">>
    /\ rdd \in SeqsUpTo(IterRows, MaxRows)
    /\ has_iter_pos = FALSE
    /\ iter_pos = 0
    /\ materialized = FALSE
    /\ last = NoCall
    /\ nops = 0
    /\ args = NoArgs

NextIter == begin_iterator \/ iterator_get_next \/ save_as_csv

SpecIter == InitIter /\ [][NextIter]_vars

(***************************************************************************)
(* Column naming and the JSON encoding of composite keys.                  *)
(***************************************************************************)
\* list.index(x), as a 1-based position
index(s, x) == CHOOSE i \in 1..Len(s) : s[i] = x /\ \A j \in 1..(i - 1) : s[j] # x

\* list.pop(i) for a 1-based position i: the list without that element
pop(s, i) == [j \in 1..(Len(s) - 1) |-> IF j < i THEN s[j] ELSE s[j + 1]]

\* for i in indexes: lst.pop(i)
RECURSIVE pop_each(_, _)
pop_each(s, indexes) ==
    IF Len(indexes) = 0 THEN s
    ELSE pop_each(pop(s, indexes[1]), Tail(indexes))

\* lst.insert(i, x) for a 1-based position i
insert(s, i, x) == [j \in 1..(Len(s) + 1) |-> IF j < i THEN s[j] ELSE IF j = i THEN x ELSE s[j - 1]]

\* lst.sort(reverse=True) on a list of integers
RECURSIVE sort_reverse(_)
sort_reverse(s) ==
    IF Len(s) = 0 THEN <<>>
    ELSE LET m == CHOOSE i \in 1..Len(s) : \A j \in 1..Len(s) : s[j] <= s[i]
         IN  <<s[m]>> \o sort_reverse(pop(s, m))

RECURSIVE name_col_loop(_, _, _)
name_col_loop(existing_col_names, proposed_name, i) ==
    LET candidate == proposed_name \o "." \o ToString(i)
    IN  IF candidate \in Range(existing_col_names)
        THEN name_col_loop(existing_col_names, proposed_name, i + 1)
        ELSE candidate

name_col(existing_col_names, proposed_name) ==
    IF proposed_name \in Range(existing_col_names)
    THEN name_col_loop(existing_col_names, proposed_name, 1)
    ELSE proposed_name

\* for col in cols: names.append(name_col(names, col))
RECURSIVE append_named(_, _)
append_named(names, cols) ==
    IF Len(cols) = 0 THEN names
    ELSE append_named(Append(names, name_col(names, cols[1])), Tail(cols))

\* json.dumps of one scalar
json_value(x) ==
    CASE x.t = "NoneType" -> "null"
      [] x.t = "nan" -> "NaN"
      [] x.t = "int" -> ToString(x.v)
      [] x.t = "float" -> ToString(x.v) \o ".0"
      [] x.t = "str" -> "\"" \o x.v \o "\""
      [] x.t = "bool" -> IF x.v THEN "true" ELSE "false"

RECURSIVE json_items(_)
json_items(key) ==
    IF Len(key) = 0 THEN ""
    ELSE IF Len(key) = 1 THEN json_value(key[1])
    ELSE json_value(key[1]) \o ", " \o json_items(Tail(key))

\* json.dumps of a list of scalars
json_dumps(key) == "[" \o json_items(key) \o "]"

(***************************************************************************)
(* Join.                                                                   *)
(***************************************************************************)
\* an absent side of an outer join (Python None) is the empty sequence of
\* rows, a present side a one-element sequence holding the row
combine_results(left_row, right_row, left_count, right_count) ==
    LET l == IF left_row = <<>> THEN [i \in 1..left_count |-> None] ELSE left_row[1]
        r == IF right_row = <<>> THEN [i \in 1..right_count |-> None] ELSE right_row[1]
    IN  l \o r

\* the loop over join_keys.iteritems(); join_keys is the list of
\* (left_key, right_key) pairs in the dict's iteration order
RECURSIVE left_key_indexes(_, _)
left_key_indexes(left_names, join_keys) ==
    IF Len(join_keys) = 0 THEN <<>>
    ELSE <<index(left_names, join_keys[1][1])>> \o left_key_indexes(left_names, Tail(join_keys))

\* right_key_indexes.append(right_index); right_key_indexes.sort(reverse=True)
RECURSIVE right_key_indexes_loop(_, _, _)
right_key_indexes_loop(right_names, join_keys, acc) ==
    IF Len(join_keys) = 0 THEN acc
    ELSE right_key_indexes_loop(right_names, Tail(join_keys),
             sort_reverse(Append(acc, index(right_names, join_keys[1][2]))))

right_key_indexes(right_names, join_keys) == right_key_indexes_loop(right_names, join_keys, <<>>)

build_key(row, indexes) == json_dumps([i \in 1..Len(indexes) |-> row[indexes[i]]])

\* fixup_right: the keyed right row without its key columns
fixup_right(row, indexes) == <<row[1], pop_each(row[2], indexes)>>

\* rdd.cartesian(other)
RECURSIVE cartesian(_, _)
cartesian(left, right) ==
    IF Len(left) = 0 THEN <<>>
    ELSE [j \in 1..Len(right) |-> <<<<left[1]>>, <<right[j]>>>>] \o cartesian(Tail(left), right)

\* keyed_left.join(keyed_right): every pair of values with the same key
RECURSIVE rdd_join(_, _)
rdd_join(keyed_left, keyed_right) ==
    IF Len(keyed_left) = 0 THEN <<>>
    ELSE LET l == keyed_left[1]
             matches == SelectSeq(keyed_right, LAMBDA r : r[1] = l[1])
         IN  [j \in 1..Len(matches) |-> <<<<l[2]>>, <<matches[j][2]>>>>]
             \o rdd_join(Tail(keyed_left), keyed_right)

\* keyed_left.leftOuterJoin(keyed_right)
RECURSIVE leftOuterJoin(_, _)
leftOuterJoin(keyed_left, keyed_right) ==
    IF Len(keyed_left) = 0 THEN <<>>
    ELSE LET l == keyed_left[1]
             matches == SelectSeq(keyed_right, LAMBDA r : r[1] = l[1])
         IN  (IF Len(matches) = 0 THEN << <<<<l[2]>>, <<>>>> >>
              ELSE [j \in 1..Len(matches) |-> <<<<l[2]>>, <<matches[j][2]>>>>])
             \o leftOuterJoin(Tail(keyed_left), keyed_right)

\* keyed_left.rightOuterJoin(keyed_right)
RECURSIVE rightOuterJoin(_, _)
rightOuterJoin(keyed_left, keyed_right) ==
    IF Len(keyed_right) = 0 THEN <<>>
    ELSE LET r == keyed_right[1]
             matches == SelectSeq(keyed_left, LAMBDA l : l[1] = r[1])
         IN  (IF Len(matches) = 0 THEN << <<<<>>, <<r[2]>>>> >>
              ELSE [j \in 1..Len(matches) |-> <<<<matches[j][2]>>, <<r[2]>>>>])
             \o rightOuterJoin(keyed_left, Tail(keyed_right))

Raised == [raised |-> TRUE]

\* self.join(right, how, join_keys): the returned table, or Raised
join_result(left, right, how, join_keys) ==
    IF how = "outer"
    THEN LET new_col_names == append_named(left.col_names, right.col_names)
             new_col_types == left.column_types \o right.column_types
             left_count == Len(left.col_names)
             right_count == Len(right.col_names)
             pairs == cartesian(left.rdd, right.rdd)
             res == [i \in 1..Len(pairs) |->
                        combine_results(pairs[i][1], pairs[i][2], left_count, right_count)]
         IN  [raised |-> FALSE, table |-> Table(new_col_names, new_col_types, res)]
    ELSE LET lki == left_key_indexes(left.col_names, join_keys)
             rki == right_key_indexes(right.col_names, join_keys)
             right_col_names == pop_each(right.col_names, rki)
             right_col_types == pop_each(right.column_types, rki)
             new_col_names == append_named(left.col_names, right_col_names)
             new_col_types == left.column_types \o right_col_types
             left_count == Len(left.col_names)
             right_count == Len(right_col_names)
             keyed_left == [i \in 1..Len(left.rdd) |-> <<build_key(left.rdd[i], lki), left.rdd[i]>>]
             keyed_right0 == [i \in 1..Len(right.rdd) |-> <<build_key(right.rdd[i], rki), right.rdd[i]>>]
             keyed_right == [i \in 1..Len(keyed_right0) |-> fixup_right(keyed_right0[i], rki)]
             pairs == CASE how = "inner" -> rdd_join(keyed_left, keyed_right)
                        [] how = "left" -> leftOuterJoin(keyed_left, keyed_right)
                        [] how = "right" -> rightOuterJoin(keyed_left, keyed_right)
             res == [i \in 1..Len(pairs) |->
                        combine_results(pairs[i][1], pairs[i][2], left_count, right_count)]
         IN  IF Len(lki) = 0 \/ Len(rki) = 0
             THEN Raised
             ELSE [raised |-> FALSE, table |-> Table(new_col_names, new_col_types, res)]

MaxJoinRows == 2

LeftRows == {<<PyInt(x), PyInt(y)>> : x \in 1..2, y \in 1..2}

RightRows == {<<PyInt(x), PyInt(y), PyStr(IF y = 1 THEN "p" ELSE "q")>> : x \in 1..2, y \in 1..2}

RightTables == {Table(<<"a", "b", "c">>, <<"int", "int", "str">>, rows) : rows \in SeqsUpTo(RightRows, MaxJoinRows)}

Hows == {"inner", "left", "right", "outer"}

\* the (left_key, right_key) pairs of a join_keys dict, in iteration order:
\* no pair, one pair, or the two columns a and b paired in either way
KeyPairs == {<<l, r>> : l \in {"a", "b"}, r \in {"a", "b"}}

JoinKeyLists ==
    {<<>>}
    \cup {<<p>> : p \in KeyPairs}
    \cup {pq \in KeyPairs \X KeyPairs : pq[1][1] # pq[2][1] /\ pq[1][2] # pq[2][2]}

\* join returns a new table and leaves self as it is
\* col_names.index(name) raises ValueError for a name that is not there
has_names(names, wanted) == \A i \in 1..Len(wanted) : wanted[i] \in Range(names)

join ==
    LET known == \/ args.how = "outer"
                 \/ /\ has_names(col_names, keys(args.join_keys))
                    /\ has_names(args.right.col_names, values(args.join_keys))
        out == IF known THEN join_result(Self, args.right, args.how, args.join_keys) ELSE Raised
    IN  /\ last' = [op |-> "join", rk |-> IF out.raised THEN "raise" ELSE "table",
                    right |-> args.right, how |-> args.how, join_keys |-> args.join_keys,
                    ret |-> IF out.raised THEN Table(<<>>, <<>>, <<>>) ELSE out.table]
        /\ UNCHANGED <<col_names, column_types, rdd, has_iter_pos, iter_pos, materialized, nops, args>>

(***************************************************************************)
(* Specification of join: a left table (a, b) and a right table (a, b, c), *)
(* joined in every mode on zero, one or two key pairs.                     *)
(***************************************************************************)
InitJoin ==
    /\ col_names = <<"a", "b">>
    /\ column_types = <<"int", "int">>
    /\ rdd \in SeqsUpTo(LeftRows, MaxJoinRows)
    /\ has_iter_pos = FALSE
    /\ iter_pos = 0
    /\ materialized = FALSE
    /\ last = NoCall
    /\ nops = 0
    /\ args \in [right : RightTables, how : Hows, join_keys : JoinKeyLists]

NextJoin == join

SpecJoin == InitJoin /\ [][NextJoin]_vars

(***************************************************************************)
(* Aggregators and groupby_aggregate.                                      *)
(***************************************************************************)
RECURSIVE sum(_)
sum(vals) == IF Len(vals) = 0 THEN 0 ELSE vals[1].v + sum(Tail(vals))

agg_sum(rows, cols) == PyInt(sum([i \in 1..Len(rows) |-> rows[i][cols[1]]]))

agg_count(rows, cols) == PyInt(Len(rows))

agg_quantile(rows, cols) == None

\* aggregator_properties[op].agg_function
agg_function(op, rows, cols) ==
    CASE op = "__builtin__sum__" -> agg_sum(rows, cols)
      [] op = "__builtin__count__" -> agg_count(rows, cols)
      [] op = "__builtin__quantile__" -> agg_quantile(rows, cols)

\* aggregator_properties[op].default_col_name
default_col_name(op) ==
    CASE op = "__builtin__sum__" -> "sum"
      [] op = "__builtin__count__" -> "count"
      [] op = "__builtin__quantile__" -> "quantile"

\* aggregator_properties[op].get_output_type(input_type)
get_output_type(op, input_type) ==
    CASE op = "__builtin__sum__" -> "int"
      [] op = "__builtin__count__" -> "int"
      [] op = "__builtin__quantile__" -> "float"

\* the scalars a key can hold: those of the table that is grouped
JsonScalars ==
    {x \in UNION {Range(rdd[i]) : i \in 1..Len(rdd)} :
        x.t \in {"NoneType", "nan", "int", "float", "str", "bool"}}

MaxKeyCols == 2

\* json.loads of an encoded key: the list whose encoding the string is
json_loads(str) == CHOOSE key \in SeqsUpTo(JsonScalars, MaxKeyCols) : json_dumps(key) = str

\* make_key reading the first key column at every position of the key
make_key_first_column(row, key_cols) ==
    json_dumps([i \in 1..Len(key_cols) |-> row[key_cols[1]]])

make_key(row, key_cols) == json_dumps([i \in 1..Len(key_cols) |-> row[key_cols[i]]])

\* keyed_rdd.groupByKey(): one (key, rows) pair per distinct key, the rows
\* of a group in their position order
RECURSIVE groupByKey(_)
groupByKey(keyed_rdd) ==
    IF Len(keyed_rdd) = 0 THEN <<>>
    ELSE LET k == keyed_rdd[1][1]
             same == SelectSeq(keyed_rdd, LAMBDA kv : kv[1] = k)
             rest == SelectSeq(keyed_rdd, LAMBDA kv : kv[1] # k)
         IN  << <<k, values(same)>> >> \o groupByKey(rest)

\* unique_col_names: every name passed through name_col in turn
unique_col_names(new_col_names) == append_named(<<>>, new_col_names)

build_aggregates(rows, group_ops, group_cols) ==
    [i \in 1..Min(Len(group_ops), Len(group_cols)) |-> agg_function(group_ops[i], rows, group_cols[i])]

\* self.groupby_aggregate(...): the returned table
groupby_result(self, key_columns_array, group_columns, group_output_columns, group_ops) ==
    LET key_cols == [i \in 1..Len(key_columns_array) |-> index(self.col_names, key_columns_array[i])]
        group_cols == [i \in 1..Len(group_columns) |->
                          [j \in 1..Len(group_columns[i]) |-> index(self.col_names, group_columns[i][j])]]
        output_columns == [i \in 1..Min(Len(group_output_columns), Len(group_ops)) |->
                              IF group_output_columns[i] # "" THEN group_output_columns[i]
                              ELSE default_col_name(group_ops[i])]
        new_col_names == unique_col_names(key_columns_array \o output_columns)
        group_types == [i \in 1..Len(group_cols) |->
                           [j \in 1..Len(group_cols[i]) |-> self.column_types[group_cols[i][j]]]]
        agg_types == [i \in 1..Min(Len(group_ops), Len(group_types)) |->
                         get_output_type(group_ops[i], group_types[i])]
        new_col_types == [i \in 1..Len(key_cols) |-> self.column_types[key_cols[i]]] \o agg_types
        keyed_rdd == [i \in 1..Len(self.rdd) |-> <<make_key(self.rdd[i], key_cols), self.rdd[i]>>]
        grouped0 == groupByKey(keyed_rdd)
        grouped == [i \in 1..Len(grouped0) |-> <<json_loads(grouped0[i][1]), grouped0[i][2]>>]
        aggregates == [i \in 1..Len(grouped) |->
                          <<grouped[i][1], build_aggregates(grouped[i][2], group_ops, group_cols)>>]
        res == [i \in 1..Len(aggregates) |-> aggregates[i][1] \o aggregates[i][2]]
    IN  Table(new_col_names, new_col_types, res)

groupby_aggregate ==
    LET known == /\ has_names(col_names, args.key_columns_array)
                 /\ \A i \in 1..Len(args.group_columns) : has_names(col_names, args.group_columns[i])
    IN
    /\ last' = [op |-> "groupby_aggregate", rk |-> IF known THEN "table" ELSE "raise",
                key_columns_array |-> args.key_columns_array, group_ops |-> args.group_ops,
                ret |-> IF known
                        THEN groupby_result(Self, args.key_columns_array, args.group_columns,
                                            args.group_output_columns, args.group_ops)
                        ELSE Table(<<>>, <<>>, <<>>)]
    /\ UNCHANGED <<col_names, column_types, rdd, has_iter_pos, iter_pos, materialized, nops, args>>

(***************************************************************************)
(* Specification of groupby_aggregate: a table (k, g, v) grouped on any    *)
(* list of the columns k and g, with count, sum and quantile aggregates.   *)
(***************************************************************************)
MaxGroupRows == 3

GroupRows == {<<k, PyStr(g), PyInt(v)>> : k \in {PyInt(1), None}, g \in {"x", "y"}, v \in 1..2}

KeyColumnLists == {<<>>, <<"k">>, <<"g">>, <<"k", "g">>, <<"g", "k">>}

\* (group_columns, group_output_columns, group_ops) of a call
Aggregations ==
    {[group_columns |-> << <<>> >>, group_output_columns |-> <<"">>,
      group_ops |-> <<"__builtin__count__">>],
     [group_columns |-> << <<>> >>, group_output_columns |-> <<"k">>,
      group_ops |-> <<"__builtin__count__">>],
     [group_columns |-> << <<"v">>, <<>> >>, group_output_columns |-> <<"", "">>,
      group_ops |-> <<"__builtin__sum__", "__builtin__count__">>],
     [group_columns |-> << <<>>, <<"v">>, <<>> >>, group_output_columns |-> <<"", "total", "">>,
      group_ops |-> <<"__builtin__count__", "__builtin__sum__", "__builtin__count__">>],
     [group_columns |-> << <<"v">>, <<>> >>, group_output_columns |-> <<"", "">>,
      group_ops |-> <<"__builtin__quantile__", "__builtin__count__">>]}

GroupArgs ==
    {[key_columns_array |-> kc, group_columns |-> a.group_columns,
      group_output_columns |-> a.group_output_columns, group_ops |-> a.group_ops] :
        kc \in KeyColumnLists, a \in Aggregations}

InitGroup ==
    /\ col_names = <<"k", "g", "v">>
    /\ column_types = <<"int", "str", "int">>
    /\ rdd \in SeqsUpTo(GroupRows, MaxGroupRows)
    /\ has_iter_pos = FALSE
    /\ iter_pos = 0
    /\ materialized = FALSE
    /\ last = NoCall
    /\ nops = 0
    /\ args \in GroupArgs

NextGroup == groupby_aggregate

SpecGroup == InitGroup /\ [][NextGroup]_vars

(***************************************************************************)
(* pack_columns.                                                           *)
(***************************************************************************)
substitute_missing(v, fill_na) == IF is_missing(v) /\ truth(fill_na) THEN fill_na ELSE v

pack_row_list(row, fill_na) == PyList([i \in 1..Len(row) |-> substitute_missing(row[i], fill_na)])

\* array.array('d', lst) stores every number as a float and raises
\* TypeError on anything that is not a number
is_number(x) == x.t \in {"int", "float", "bool", "nan"}

as_double(x) ==
    CASE x.t = "int" -> PyFloat(x.v)
      [] x.t = "bool" -> PyFloat(IF x.v THEN 1 ELSE 0)
      [] OTHER -> x

pack_row_array(row, fill_na) ==
    LET lst == [i \in 1..Len(row) |-> substitute_missing(row[i], fill_na)]
    IN  IF \A i \in 1..Len(lst) : is_number(lst[i])
        THEN [t |-> "array", v |-> [i \in 1..Len(lst) |-> as_double(lst[i])]]
        ELSE [t |-> "TypeError", v |-> <<>>]

\* the dict is the list of its (key, value) entries in insertion order
pack_row_dict(row, dict_keys, fill_na) ==
    LET n == Min(Len(row), Len(dict_keys))
        new_val(i) == substitute_missing(row[i], fill_na)
        kept == SelectSeq([i \in 1..n |-> i], LAMBDA i : new_val(i) # None)
    IN  PyDict([j \in 1..Len(kept) |-> <<dict_keys[kept[j]], new_val(kept[j])>>])

\* self.pack_columns(columns, dict_keys, dtype, fill_na): the values of the
\* returned array
pack_result(self, columns, dict_keys, dtype, fill_na) ==
    LET cols == [i \in 1..Len(columns) |-> index(self.col_names, columns[i])]
        packed_keys == [r \in 1..Len(self.rdd) |-> [i \in 1..Len(cols) |-> self.rdd[r][cols[i]]]]
    IN  [r \in 1..Len(packed_keys) |->
            CASE dtype = "list" -> pack_row_list(packed_keys[r], fill_na)
              [] dtype = "array" -> pack_row_array(packed_keys[r], fill_na)
              [] dtype = "dict" -> pack_row_dict(packed_keys[r], dict_keys, fill_na)]

pack_columns ==
    LET res == pack_result(Self, args.columns, args.dict_keys, args.dtype, args.fill_na)
        failed == \E r \in 1..Len(res) : res[r].t = "TypeError"
    IN  /\ last' = [op |-> "pack_columns", rk |-> IF failed THEN "raise" ELSE "array",
                    columns |-> args.columns, dict_keys |-> args.dict_keys,
                    dtype |-> args.dtype, fill_na |-> args.fill_na,
                    ret |-> [elem_type |-> args.dtype, rdd |-> IF failed THEN <<>> ELSE res]]
        /\ UNCHANGED <<col_names, column_types, rdd, has_iter_pos, iter_pos, materialized, nops, args>>

(***************************************************************************)
(* Specification of pack_columns: a table (x, y) with missing values,      *)
(* packed into a list, an array or a dict with any fill_na.                *)
(***************************************************************************)
MaxPackRows == 2

PackRows == {<<x, y>> : x \in {PyInt(1), None}, y \in {PyFloat(2), None, NaN}}

FillValues == {None, PyInt(0), PyInt(9), PyFloat(0), PyStr(""), PyStr("z"), PyBool(FALSE), PyBool(TRUE)}

PackArgs ==
    {[columns |-> c, dict_keys |-> c, dtype |-> d, fill_na |-> f] :
        c \in {<<"x", "y">>, <<"y", "x">>, <<"y">>}, d \in {"list", "array", "dict"}, f \in FillValues}

InitPack ==
    /\ col_names = <<"x", "y">>
    /\ column_types = <<"int", "float">>
    /\ rdd \in SeqsUpTo(PackRows, MaxPackRows)
    /\ has_iter_pos = FALSE
    /\ iter_pos = 0
    /\ materialized = FALSE
    /\ last = NoCall
    /\ nops = 0
    /\ args \in PackArgs

NextPack == pack_columns

SpecPack == InitPack /\ [][NextPack]_vars

(***************************************************************************)
(* Column and row operations of the table.                                 *)
(*                                                                         *)
(* An operation that works in place (_replace) changes col_names,          *)
(* column_types and rdd; an operation that returns a new table (_rv)       *)
(* leaves self alone and its table is last.ret.  An array argument is a    *)
(* record [elem_type, rdd].                                                *)
(***************************************************************************)
NoTable == Table(<<>>, <<>>, <<>>)

\* the call raised before it changed anything
raise(op) ==
    /\ last' = [op |-> op, rk |-> "raise", ret |-> NoTable]
    /\ UNCHANGED <<col_names, column_types, rdd, has_iter_pos, iter_pos, materialized, nops, args>>

\* _replace(rdd, col_names, column_types) at the end of an in-place call
replace(op, res, names, types) ==
    /\ rdd' = res
    /\ col_names' = names
    /\ column_types' = types
    /\ materialized' = FALSE
    /\ last' = [op |-> op, rk |-> "self", ret |-> NoTable, before |-> Self]
    /\ nops' = nops + 1
    /\ UNCHANGED <<has_iter_pos, iter_pos, args>>

\* return self._rv(rdd, col_names, column_types)
rv(op, res, names, types) ==
    /\ last' = [op |-> op, rk |-> "table", ret |-> Table(names, types, res)]
    /\ UNCHANGED <<col_names, column_types, rdd, has_iter_pos, iter_pos, materialized, nops, args>>

\* the arrays and tables the caller passes to the operations
Array(elem_type, vals) == [elem_type |-> elem_type, rdd |-> vals]

Arrays == {Array("int", <<PyInt(7), PyInt(8)>>), Array("int", <<PyInt(7)>>)}

Frames == {Table(<<"a">>, <<"int">>, <<<<PyInt(5)>>, <<PyInt(6)>>>>),
           Table(<<"n">>, <<"int">>, <<<<PyInt(5)>>, <<PyInt(6)>>>>)}

move_inside(old_val, new_elem) == old_val \o <<new_elem>>

\* res.map(lambda pair: move_inside(pair[0], pair[1]))
zip_inside(rows, column, num_partitions) ==
    LET pairs == safeZip(rows, column, num_partitions)
    IN  [i \in 1..Len(pairs) |-> move_inside(pairs[i][1], pairs[i][2])]

\* add_column that renames a colliding name with name_col instead of raising
add_column_renaming(data, given, num_partitions) ==
    LET col == Len(col_names)
        name == IF given = "" THEN "X" \o ToString(col) ELSE given
    IN  replace("add_column", zip_inside(rdd, data.rdd, num_partitions),
                Append(col_names, name_col(col_names, name)),
                Append(column_types, data.elem_type))

\* the body of add_column(data, name)
add_column_call(data, given, num_partitions) ==
    LET col == Len(col_names)
        name == IF given = "" THEN "X" \o ToString(col) ELSE given
    IN  IF name \in Range(col_names)
        THEN raise("add_column")
        ELSE replace("add_column", zip_inside(rdd, data.rdd, num_partitions),
                     Append(col_names, name), Append(column_types, data.elem_type))

add_column ==
    /\ nops < MaxTableOps
    /\ \E data \in Arrays, given \in {"", "a"}, num_partitions \in 1..MaxPartitions :
         add_column_call(data, given, num_partitions)

\* for col in cols: rdd = safe_zip(rdd, col.rdd).map(move_inside)
RECURSIVE zip_each(_, _, _)
zip_each(rows, cols, num_partitions) ==
    IF Len(cols) = 0 THEN rows
    ELSE zip_each(zip_inside(rows, cols[1].rdd, num_partitions), Tail(cols), num_partitions)

add_columns_array ==
    /\ nops < MaxTableOps
    /\ \E cols \in {<<a1, a1>> : a1 \in Arrays},
          namelist \in {<<"n", "m">>, <<"a", "n">>},
          num_partitions \in 1..MaxPartitions :
         LET names == col_names \o namelist
             types == column_types \o [i \in 1..Len(cols) |-> cols[i].elem_type]
         IN  replace("add_columns_array", zip_each(rdd, cols, num_partitions), names, types)

add_columns_frame ==
    /\ nops < MaxTableOps
    /\ \E other \in Frames, num_partitions \in 1..MaxPartitions :
         LET names == col_names \o other.col_names
             types == column_types \o other.column_types
             pairs == safeZip(rdd, other.rdd, num_partitions)
             res == [i \in 1..Len(pairs) |-> pairs[i][1] \o pairs[i][2]]
         IN  replace("add_columns_frame", res, names, types)

remove_column ==
    /\ nops < MaxTableOps
    /\ \E name \in {"a", "l"} :
         IF name \notin Range(col_names)
         THEN raise("remove_column")
         ELSE LET col == index(col_names, name)
              IN  replace("remove_column", [i \in 1..Len(rdd) |-> pop(rdd[i], col)],
                          pop(col_names, col), pop(column_types, col))

\* for col in cols: self.col_names.pop(col); self.column_types.pop(col):
\* pop raises IndexError for a position past the end of the list, with
\* the earlier pops done
RECURSIVE pop_columns(_, _, _)
pop_columns(names, types, cols) ==
    IF Len(cols) = 0 THEN [raised |-> FALSE, col_names |-> names, column_types |-> types]
    ELSE IF cols[1] > Len(names) THEN [raised |-> TRUE, col_names |-> names, column_types |-> types]
    ELSE pop_columns(pop(names, cols[1]), pop(types, cols[1]), Tail(cols))

\* the body of remove_columns(col_names)
remove_columns_call(names) ==
    IF ~has_names(col_names, names)
    THEN raise("remove_columns")
    ELSE LET cols == sort_reverse([i \in 1..Len(names) |-> index(col_names, names[i])])
             popped == pop_columns(col_names, column_types, cols)
         IN  IF popped.raised
             THEN /\ col_names' = popped.col_names
                  /\ column_types' = popped.column_types
                  /\ last' = [op |-> "remove_columns", rk |-> "raise", ret |-> NoTable, before |-> Self]
                  /\ nops' = nops + 1
                  /\ UNCHANGED <<rdd, has_iter_pos, iter_pos, materialized, args>>
             ELSE replace("remove_columns", [i \in 1..Len(rdd) |-> pop_each(rdd[i], cols)],
                          popped.col_names, popped.column_types)

remove_columns ==
    /\ nops < MaxTableOps
    /\ \E names \in {<<"a", "l">>, <<"l", "a">>, <<"d">>} : remove_columns_call(names)

swap_list(lst, col1, col2) ==
    [i \in 1..Len(lst) |-> IF i = col1 THEN lst[col2] ELSE IF i = col2 THEN lst[col1] ELSE lst[i]]

swap_columns ==
    /\ nops < MaxTableOps
    /\ \E column_1 \in {"a"}, column_2 \in {"l", "d"} :
         IF ~has_names(col_names, <<column_1, column_2>>)
         THEN raise("swap_columns")
         ELSE LET col1 == index(col_names, column_1)
                  col2 == index(col_names, column_2)
              IN  replace("swap_columns", [i \in 1..Len(rdd) |-> swap_list(rdd[i], col1, col2)],
                          swap_list(col_names, col1, col2), swap_list(column_types, col1, col2))

\* new_row = list(row); new_row[col] = val
subs_row(row, col, val) == [row EXCEPT ![col] = val]

\* stack_row without its last line: a row that yields nothing is always dropped
stack_row_no_null_row(row, col, drop_na) ==
    LET vals == IF drop_na THEN SelectSeq(row[col].v, LAMBDA val : ~is_missing_or_empty(val))
                ELSE row[col].v
    IN  [i \in 1..Len(vals) |-> subs_row(row, col, vals[i])]

\* stack_list's stack_row: the rows one input row expands to
stack_row(row, col, drop_na) ==
    LET vals == IF drop_na THEN SelectSeq(row[col].v, LAMBDA val : ~is_missing_or_empty(val))
                ELSE row[col].v
        res == [i \in 1..Len(vals) |-> subs_row(row, col, vals[i])]
    IN  IF Len(res) > 0 \/ drop_na THEN res ELSE <<subs_row(row, col, None)>>

\* rdd.flatMap(f): the results of f on each row, concatenated in row order
RECURSIVE flatMap(_)
flatMap(lists) == IF Len(lists) = 0 THEN <<>> ELSE lists[1] \o flatMap(Tail(lists))

\* iterating over the column's values raises TypeError unless they are of
\* the given collection type
holds_only(rows, col, type) == \A i \in 1..Len(rows) : rows[i][col].t = type

stack_list ==
    \E column_name \in {"l"}, new_name \in {"", "s"}, drop_na \in BOOLEAN :
        IF column_name \notin Range(col_names)
        THEN raise("stack_list")
        ELSE LET col_num == index(col_names, column_name)
                 res == flatMap([i \in 1..Len(rdd) |-> stack_row(rdd[i], col_num, drop_na)])
                 name == IF new_name = "" THEN name_col(col_names, "X") ELSE new_name
                 names == [col_names EXCEPT ![col_num] = name]
                 types == [column_types EXCEPT ![col_num] = "int"]
             IN  IF ~holds_only(rdd, col_num, "list")
                 THEN raise("stack_list")
                 ELSE /\ last' = [op |-> "stack_list", rk |-> "table", ret |-> Table(names, types, res),
                                  col_num |-> col_num, drop_na |-> drop_na]
                      /\ UNCHANGED <<col_names, column_types, rdd, has_iter_pos, iter_pos,
                                     materialized, nops, args>>

\* stack_dict's subs_row: the key replaces the dict, the value follows it
subs_row_dict(row, col, key, val) == insert([row EXCEPT ![col] = key], col + 1, val)

stack_row_dict(row, col, drop_na) ==
    LET items == IF drop_na THEN SelectSeq(row[col].v, LAMBDA kv : ~is_missing_or_empty(kv[2]))
                 ELSE row[col].v
        res == [i \in 1..Len(items) |-> subs_row_dict(row, col, items[i][1], items[i][2])]
    IN  IF Len(res) > 0 \/ drop_na THEN res ELSE <<subs_row_dict(row, col, None, None)>>

stack_dict ==
    \E column_name \in {"d"}, new_names \in {<<"", "">>, <<"a", "v">>}, drop_na \in BOOLEAN :
        IF column_name \notin Range(col_names)
        THEN raise("stack_dict")
        ELSE LET col_num == index(col_names, column_name)
                 res == flatMap([i \in 1..Len(rdd) |-> stack_row_dict(rdd[i], col_num, drop_na)])
                 new_name_k == IF new_names[1] = "" THEN name_col(col_names, "K") ELSE new_names[1]
                 names_k == [col_names EXCEPT ![col_num] = new_name_k]
                 new_name_v == IF new_names[2] = "" THEN name_col(names_k, "V") ELSE new_names[2]
                 names == insert(names_k, col_num + 1, new_name_v)
                 types == insert([column_types EXCEPT ![col_num] = "str"], col_num + 1, "int")
             IN  IF ~holds_only(rdd, col_num, "dict")
                 THEN raise("stack_dict")
                 ELSE rv("stack_dict", res, names, types)

\* self.rdd.union(other.rdd): no check of other's columns
append ==
    \E other \in {Self} \cup Frames :
        /\ last' = [op |-> "append", rk |-> "table", other |-> other,
                    ret |-> Table(col_names, column_types, rdd \o other.rdd)]
        /\ UNCHANGED <<col_names, column_types, rdd, has_iter_pos, iter_pos, materialized, nops, args>>

\* pull_up: the row number is put in front of the row
pull_up(pair, start) == <<PyInt(pair[2] + start)>> \o pair[1]

add_row_number ==
    \E column_name \in {"id", "a"}, start \in {0, 1} :
        LET names == insert(col_names, 1, column_name)
            types == insert(column_types, 1, "int")
            pairs == zipWithIndex(rdd)
            res == [i \in 1..Len(pairs) |-> pull_up(pairs[i], start)]
        IN  rv("add_row_number", res, names, types)

\* the caller goes on with the table the last call returned: a new
\* XFrameImpl, not materialized and without a cursor
continue_with_result ==
    /\ nops < MaxTableOps
    /\ last.rk = "table"
    /\ \A i \in 1..Len(last.ret.rdd) : Len(last.ret.rdd[i]) = Len(last.ret.col_names)
    /\ Len(last.ret.col_names) = Len(last.ret.column_types)
    /\ col_names' = last.ret.col_names
    /\ column_types' = last.ret.column_types
    /\ rdd' = last.ret.rdd
    /\ has_iter_pos' = FALSE
    /\ iter_pos' = 0
    /\ materialized' = FALSE
    /\ last' = [op |-> "continue_with_result", rk |-> "self", ret |-> NoTable]
    /\ nops' = nops + 1
    /\ UNCHANGED args

(***************************************************************************)
(* Specification of the table operations in sequence, starting from a      *)
(* table with an int column a, a list column l and a dict column d.        *)
(***************************************************************************)
TableArgs ==
    {[right |-> Table(<<"a", "c">>, <<"int", "str">>, <<<<PyInt(1), PyStr("p")>>>>),
      how |-> h, join_keys |-> << <<"a", "a">> >>,
      key_columns_array |-> <<"a">>, group_columns |-> << <<>> >>,
      group_output_columns |-> <<"">>, group_ops |-> <<"__builtin__count__">>] : h \in Hows}

InitTable ==
    /\ col_names = <<"a", "l", "d">>
    /\ column_types = <<"int", "list", "dict">>
    /\ rdd = << <<PyInt(1), PyList(<<PyInt(1), PyInt(2)>>), PyDict(<< <<PyStr("x"), PyInt(1)>> >>)>>,
                <<PyInt(2), PyList(<<>>), PyDict(<<>>)>> >>
    /\ has_iter_pos = FALSE
    /\ iter_pos = 0
    /\ materialized = FALSE
    /\ last = NoCall
    /\ nops = 0
    /\ args \in TableArgs

NextTable ==
    \/ add_column
    \/ add_columns_array
    \/ add_columns_frame
    \/ remove_column
    \/ remove_columns
    \/ swap_columns
    \/ stack_list
    \/ stack_dict
    \/ add_row_number
    \/ append
    \/ join
    \/ groupby_aggregate
    \/ continue_with_result

SpecTable == InitTable /\ [][NextTable]_vars

\* C3: after begin_iterator(), the k-th successive iterator_get_next(n)
\* returns the rows at zero-based positions (k-1)*n .. min(k*n, |T|)-1 in
\* order, and the cursor has advanced by exactly n.
C3_IteratorWindows ==
    (last.op = "iterator_get_next" /\ last.k >= 1) =>
        /\ last.ret = SubSeq(rdd, (last.k - 1) * last.n + 1, Min(last.k * last.n, Len(rdd)))
        /\ iter_pos = last.pos0 + last.n

\* C4: save_as_csv writes exactly one line for every row, in row order.
C4_CsvOneLinePerRow ==
    last.op = "save_as_csv" =>
        last.ret = [i \in 1..Len(rdd) |-> csv_line(rdd[i])]

\* the bag of the elements of a sequence
SeqToBag(s) == [x \in Range(s) |-> Cardinality({i \in 1..Len(s) : s[i] = x})]

\* l and r agree on every (left_key, right_key) pair
KeysAgree(l, r, left, right, join_keys) ==
    \A p \in 1..Len(join_keys) :
        l[index(left.col_names, join_keys[p][1])] = r[index(right.col_names, join_keys[p][2])]

\* the values of a right row in the columns that are not right keys
NonKeyValues(r, right, join_keys) ==
    LET key_names == {join_keys[p][2] : p \in 1..Len(join_keys)}
        picked == SelectSeq(zipWithIndex(r), LAMBDA vi : right.col_names[vi[2] + 1] \notin key_names)
    IN  keys(picked)

\* the pairs (l, r) of a left and a right row that agree on the keys
AgreeingPairs(left, right, join_keys) ==
    SelectSeq(cartesian(left.rdd, right.rdd),
              LAMBDA lr : KeysAgree(lr[1][1], lr[2][1], left, right, join_keys))

\* C5: an inner join on one or more key pairs holds exactly one row for
\* each pair of a left and a right row that agree on every key pair.
C5_InnerJoinPairs ==
    (last.op = "join" /\ last.how = "inner" /\ Len(last.join_keys) >= 1) =>
        LET pairs == AgreeingPairs(Self, last.right, last.join_keys)
            expected == [i \in 1..Len(pairs) |->
                            pairs[i][1][1] \o NonKeyValues(pairs[i][2][1], last.right, last.join_keys)]
        IN  /\ last.rk = "table"
            /\ SeqToBag(last.ret.rdd) = SeqToBag(expected)

\* C6: a left join in which every left row agrees with at most one right
\* row has |L| rows: each left row once, followed by the agreeing right
\* row's non-key values or by one null per non-key right column.
C6_LeftJoinPreservesLeft ==
    (/\ last.op = "join" /\ last.how = "left" /\ Len(last.join_keys) >= 1
     /\ \A i \in 1..Len(rdd) :
            Cardinality({j \in 1..Len(last.right.rdd) :
                KeysAgree(rdd[i], last.right.rdd[j], Self, last.right, last.join_keys)}) <= 1) =>
        LET R == last.right
            jk == last.join_keys
            partner(i) == {j \in 1..Len(R.rdd) : KeysAgree(rdd[i], R.rdd[j], Self, R, jk)}
            nulls == [c \in 1..(Len(R.col_names) - Len(jk)) |-> None]
            expected == [i \in 1..Len(rdd) |->
                            rdd[i] \o (IF partner(i) = {} THEN nulls
                                       ELSE NonKeyValues(R.rdd[CHOOSE j \in partner(i) : TRUE], R, jk))]
        IN  /\ last.rk = "table"
            /\ Len(last.ret.rdd) = Len(rdd)
            /\ SeqToBag(last.ret.rdd) = SeqToBag(expected)

\* C7: an 'outer' join is the cross product filtered on the join keys: one
\* row, the full left row followed by the full right row, for each pair
\* that agrees on the keys, and no row for any other pair.
C7_OuterJoinFiltered ==
    (last.op = "join" /\ last.how = "outer") =>
        LET pairs == AgreeingPairs(Self, last.right, last.join_keys)
            expected == [i \in 1..Len(pairs) |-> pairs[i][1][1] \o pairs[i][2][1]]
        IN  /\ last.rk = "table"
            /\ SeqToBag(last.ret.rdd) = SeqToBag(expected)

\* C8: a join with an empty join-key set raises in every mode.
C8_EmptyKeysRaise ==
    (last.op = "join" /\ Len(last.join_keys) = 0) => last.rk = "raise"

\* the key tuple of a row: its values in the key columns
KeyTuple(row, key_columns_array) ==
    [i \in 1..Len(key_columns_array) |-> row[index(col_names, key_columns_array[i])]]

\* the positions of the count aggregates among the output columns
CountColumns == {Len(last.key_columns_array) + i : i \in {j \in 1..Len(last.group_ops) :
                                                            last.group_ops[j] = "__builtin__count__"}}

RECURSIVE SumColumn(_, _)
SumColumn(rows, c) == IF Len(rows) = 0 THEN 0 ELSE rows[1][c].v + SumColumn(Tail(rows), c)

\* C9: groupby_aggregate returns one row per distinct key tuple of the
\* input, and the values of a count aggregate add up to the number of input
\* rows.
C9_GroupByCounts ==
    last.op = "groupby_aggregate" =>
        /\ Len(last.ret.rdd) = Cardinality({KeyTuple(rdd[i], last.key_columns_array) : i \in 1..Len(rdd)})
        /\ \A c \in CountColumns : SumColumn(last.ret.rdd, c) = Len(rdd)

\* C9 witness: a table with several rows in one group and at least two
\* groups on a two-column key has been aggregated with count.
C9_Witness ==
    /\ last.op = "groupby_aggregate"
    /\ Len(last.key_columns_array) = 2
    /\ CountColumns # {}
    /\ Len(last.ret.rdd) >= 2
    /\ Len(last.ret.rdd) < Len(rdd)

\* Python's == on two scalars: numbers compare by value whatever their
\* type, NaN equals nothing
PyEqual(a, b) ==
    LET num(x) == IF x.t = "bool" THEN (IF x.v THEN 1 ELSE 0) ELSE x.v
    IN  IF a.t \in {"int", "float", "bool"} /\ b.t \in {"int", "float", "bool"}
        THEN num(a) = num(b)
        ELSE a.t # "nan" /\ a = b

\* the value packed for column number j of row r: the j-th element of a
\* list or array, the entry under the j-th key of a dict (None when the
\* dict has no such entry)
PackedValue(r, j) ==
    LET packed == last.ret.rdd[r]
    IN  IF last.dtype = "dict"
        THEN LET hits == SelectSeq(packed.v, LAMBDA kv : kv[1] = last.dict_keys[j])
             IN  IF Len(hits) = 0 THEN None ELSE hits[1][2]
        ELSE packed.v[j]

\* C10: whenever a fill_na is provided, every missing value of the packed
\* columns is replaced by fill_na, whatever fill_na is.
C10_FillNaReplacesMissing ==
    (last.op = "pack_columns" /\ last.fill_na # None) =>
        (last.rk = "array" =>
            \A r \in 1..Len(rdd) : \A j \in 1..Len(last.columns) :
                is_missing(rdd[r][index(col_names, last.columns[j])]) =>
                    PyEqual(PackedValue(r, j), last.fill_na))

\* a table whose name list, type list and rows all have the same length
WellFormed(t) ==
    /\ Len(t.col_names) = Len(t.column_types)
    /\ \A i \in 1..Len(t.rdd) : Len(t.rdd[i]) = Len(t.col_names)

\* C1: after any sequence of table operations, the table itself and the
\* table the last operation returned have as many column names as column
\* types, and every row has exactly that many values.
C1_RowWidthInvariant ==
    /\ WellFormed(Self)
    /\ last.rk = "table" => WellFormed(last.ret)

PairwiseDistinct(names) ==
    \A i \in 1..Len(names) : \A j \in 1..Len(names) : i # j => names[i] # names[j]

\* C2: after any operation that can introduce a name collision, the column
\* names of the resulting table are pairwise distinct.
C2_DistinctNames ==
    /\ PairwiseDistinct(col_names)
    /\ last.rk = "table" => PairwiseDistinct(last.ret.col_names)

\* C11: when pack_columns produces a dict, no entry of any produced dict
\* has a missing value (None or NaN).
C11_DictHasNoMissing ==
    (last.op = "pack_columns" /\ last.dtype = "dict" /\ last.rk = "array") =>
        \A r \in 1..Len(last.ret.rdd) :
            \A e \in 1..Len(last.ret.rdd[r].v) : ~is_missing(last.ret.rdd[r].v[e][2])

(***************************************************************************)
(* Specification of stack_list: a table (a, l) whose list column holds     *)
(* lists with missing and empty elements, empty lists and None.            *)
(***************************************************************************)
MaxStackRows == 2

MaxListLen == 2

StackElems == {PyInt(1), None}

\* the cells of the list column: every list of up to MaxListLen elements,
\* lists with a NaN and with an empty list as element, and None
StackLists ==
    {PyList(e) : e \in SeqsUpTo(StackElems, MaxListLen)}
        \cup {PyList(<<NaN, PyInt(1)>>), PyList(<<PyList(<<>>)>>), None}

StackRows == {<<a, l>> : a \in {PyInt(1), PyInt(2)}, l \in StackLists}

InitStack ==
    /\ col_names = <<"a", "l">>
    /\ column_types = <<"int", "list">>
    /\ rdd \in SeqsUpTo(StackRows, MaxStackRows)
    /\ has_iter_pos = FALSE
    /\ iter_pos = 0
    /\ materialized = FALSE
    /\ last = NoCall
    /\ nops = 0
    /\ args = NoArgs

NextStack == stack_list

SpecStack == InitStack /\ [][NextStack]_vars

\* the rows one element after the other gives: the input row with the
\* element in the stacked column, nothing for a skipped element
RECURSIVE RowPerElement(_, _, _, _)
RowPerElement(row, col, elems, drop_na) ==
    IF Len(elems) = 0 THEN <<>>
    ELSE (IF drop_na /\ is_missing_or_empty(Head(elems))
          THEN <<>> ELSE <<[row EXCEPT ![col] = Head(elems)]>>)
         \o RowPerElement(row, col, Tail(elems), drop_na)

StackedRow(row, col, drop_na) ==
    LET per_element == RowPerElement(row, col, row[col].v, drop_na)
    IN  IF Len(per_element) > 0 THEN per_element
        ELSE IF drop_na THEN <<>> ELSE <<[row EXCEPT ![col] = None]>>

RECURSIVE StackedRows(_, _, _)
StackedRows(rows, col, drop_na) ==
    IF Len(rows) = 0 THEN <<>>
    ELSE StackedRow(Head(rows), col, drop_na) \o StackedRows(Tail(rows), col, drop_na)

\* C12: stack_list gives, for each input row in order, one row per element
\* of its list (missing or empty elements skipped when drop_na is set), each
\* equal to the input row in every other column; a row that yields no
\* element is dropped when drop_na is set and otherwise gives one row with
\* None in the stacked column.
C12_StackListRows ==
    (last.op = "stack_list" /\ last.rk = "table") =>
        last.ret.rdd = StackedRows(rdd, last.col_num, last.drop_na)

\* both cases at once: without drop_na, a row with an empty list next to a
\* row with two elements
C12_Witness ==
    /\ last.op = "stack_list" /\ last.rk = "table" /\ ~last.drop_na
    /\ Len(rdd) = 2 /\ rdd[1][2] = PyList(<<>>) /\ rdd[2][2] = PyList(<<None, PyInt(1)>>)
    /\ Len(last.ret.rdd) = 3

(***************************************************************************)
(* copy_range.                                                             *)
(***************************************************************************)
\* select_row that counts the step from position 0 instead of from start
select_row_from_zero(x, start, step, stop) ==
    IF x < start \/ x >= stop THEN FALSE ELSE x % step = 0

select_row(x, start, step, stop) ==
    IF x < start \/ x >= stop THEN FALSE ELSE (x - start) % step = 0

\* (x - start) % step raises ZeroDivisionError for step = 0, on the first
\* row whose position is inside start..stop-1
copy_range ==
    LET start == args.start
        step == args.step
        stop == args.stop
        pairs == zipWithIndex(rdd)
        res == keys(SelectSeq(pairs, LAMBDA x : select_row(x[2], start, step, stop)))
    IN  IF step = 0 /\ \E i \in 1..Len(pairs) : pairs[i][2] >= start /\ pairs[i][2] < stop
        THEN raise("copy_range")
        ELSE rv("copy_range", IF step = 0 THEN <<>> ELSE res, col_names, column_types)

(***************************************************************************)
(* Specification of copy_range: a table of up to MaxRangeRows rows, any    *)
(* start and stop around its positions, steps up to MaxStep.               *)
(***************************************************************************)
MaxRangeRows == 4

MaxStep == 3

RangeRows == [i \in 1..MaxRangeRows |-> <<PyInt(10 + i)>>]

RangeArgs ==
    {[start |-> a, step |-> s, stop |-> b] :
        a \in (0 - 1)..MaxRangeRows, s \in 0..MaxStep, b \in (0 - 1)..(MaxRangeRows + 1)}

InitRange ==
    /\ col_names = <<"a">>
    /\ column_types = <<"int">>
    /\ rdd \in {SubSeq(RangeRows, 1, n) : n \in 0..MaxRangeRows}
    /\ has_iter_pos = FALSE
    /\ iter_pos = 0
    /\ materialized = FALSE
    /\ last = NoCall
    /\ nops = 0
    /\ args \in RangeArgs

NextRange == copy_range

SpecRange == InitRange /\ [][NextRange]_vars

\* the zero-based positions the claim selects
SelectedPositions ==
    {i \in 0..(Len(rdd) - 1) :
        args.start <= i /\ i < args.stop /\ (i - args.start) % args.step = 0}

\* C13: copy_range(start, step, stop) with step >= 1 returns exactly the
\* rows at the zero-based positions i with start <= i < stop and
\* (i - start) % step = 0, in their original order, under the same schema.
C13_CopyRangeRows ==
    (last.op = "copy_range" /\ args.step >= 1) =>
        /\ last.rk = "table"
        /\ last.ret.col_names = col_names
        /\ last.ret.column_types = column_types
        /\ Len(last.ret.rdd) = Cardinality(SelectedPositions)
        /\ \A p \in SelectedPositions :
               last.ret.rdd[Cardinality({q \in SelectedPositions : q < p}) + 1] = rdd[p + 1]

\* a range that starts inside the table, skips rows and stops before the end
C13_Witness ==
    /\ last.op = "copy_range" /\ last.rk = "table"
    /\ args.start = 1 /\ args.step = 2 /\ args.stop = 4 /\ Len(rdd) = 4
    /\ last.ret.rdd = <<rdd[2], rdd[4]>>

(***************************************************************************)
(* drop_missing_values.                                                    *)
(***************************************************************************)
keep_row_any(row, cols) == \A i \in 1..Len(cols) : ~is_missing(row[cols[i]])

\* keep_row_all that looks at the first listed column only
keep_row_all_first(row, cols) == Len(cols) > 0 /\ ~is_missing(row[cols[1]])

keep_row_all(row, cols) == \E i \in 1..Len(cols) : ~is_missing(row[cols[i]])

\* self.col_names.index(col) raises ValueError for an unknown name; with
\* split the call returns the pair (kept, dropped)
drop_missing_values ==
    LET columns == args.columns
        all_behavior == args.all_behavior
        split == args.split
        column_names == IF Len(columns) = 0 THEN col_names ELSE columns
        cols == [i \in 1..Len(column_names) |-> index(col_names, column_names[i])]
        f(row) == IF all_behavior THEN keep_row_all(row, cols) ELSE keep_row_any(row, cols)
        res1 == SelectSeq(rdd, LAMBDA row : f(row))
        res2 == SelectSeq(rdd, LAMBDA row : ~f(row))
    IN  IF ~has_names(col_names, column_names)
        THEN raise("drop_missing_values")
        ELSE /\ last' = [op |-> "drop_missing_values", rk |-> IF split THEN "tables" ELSE "table",
                         ret |-> Table(col_names, column_types, res1),
                         ret2 |-> IF split THEN Table(col_names, column_types, res2) ELSE NoTable]
             /\ UNCHANGED <<col_names, column_types, rdd, has_iter_pos, iter_pos,
                            materialized, nops, args>>

(***************************************************************************)
(* Specification of drop_missing_values: a table (x, y) with None and NaN  *)
(* among its values, any column list, both behaviours, with and without    *)
(* split.                                                                  *)
(***************************************************************************)
MaxDropRows == 3

DropArgs ==
    {[columns |-> c, all_behavior |-> a, split |-> s] :
        c \in {<<>>, <<"x">>, <<"y">>, <<"y", "x">>, <<"z">>}, a \in BOOLEAN, s \in BOOLEAN}

InitDrop ==
    /\ col_names = <<"x", "y">>
    /\ column_types = <<"int", "float">>
    /\ rdd \in SeqsUpTo(PackRows, MaxDropRows)
    /\ has_iter_pos = FALSE
    /\ iter_pos = 0
    /\ materialized = FALSE
    /\ last = NoCall
    /\ nops = 0
    /\ args \in DropArgs

NextDrop == drop_missing_values

SpecDrop == InitDrop /\ [][NextDrop]_vars

\* the positions of the listed columns, an empty list meaning every column
ListedColumns ==
    IF Len(args.columns) = 0 THEN 1..Len(col_names)
    ELSE {i \in 1..Len(col_names) : col_names[i] \in Range(args.columns)}

\* the claim's condition for removing a row
RowIsRemoved(row) ==
    IF args.all_behavior THEN \A c \in ListedColumns : is_missing(row[c])
    ELSE \E c \in ListedColumns : is_missing(row[c])

\* C14: drop_missing_values removes a row iff any listed column is missing
\* (all_behavior false) or iff all listed columns are missing (all_behavior
\* true), an empty column list meaning all columns; with split the two
\* returned tables hold every input row exactly once between them.
C14_DropMissingValues ==
    (last.op = "drop_missing_values" /\ last.rk # "raise") =>
        /\ last.ret.rdd = SelectSeq(rdd, LAMBDA row : ~RowIsRemoved(row))
        /\ args.split =>
               /\ last.rk = "tables"
               /\ last.ret2.rdd = SelectSeq(rdd, LAMBDA row : RowIsRemoved(row))
               /\ SeqToBag(last.ret.rdd) (+) SeqToBag(last.ret2.rdd) = SeqToBag(rdd)

\* all_behavior over all columns with split: the row missing everywhere is
\* dropped, the row missing in one column is kept
C14_Witness ==
    /\ last.op = "drop_missing_values" /\ last.rk = "tables"
    /\ args.all_behavior /\ Len(args.columns) = 0
    /\ rdd = << <<None, NaN>>, <<None, PyFloat(2)>> >>
    /\ last.ret.rdd = << <<None, PyFloat(2)>> >>
    /\ last.ret2.rdd = << <<None, NaN>> >>

(***************************************************************************)
(* Specification of add_column: a table (a, b) or (a, X2) of up to         *)
(* MaxAddRows rows, an array of up to MaxAddRows + 1 elements, a name that *)
(* is empty, present or new.  The same call is made up to MaxTableOps      *)
(* times.                                                                  *)
(***************************************************************************)
MaxAddRows == 3

AddRows == [i \in 1..MaxAddRows |-> <<PyInt(i), PyInt(10 + i)>>]

AddArgs ==
    {[data |-> Array("int", [i \in 1..n |-> PyInt(6 + i)]), name |-> g, num_partitions |-> p] :
        n \in 0..(MaxAddRows + 1), g \in {"", "a", "n"}, p \in 1..MaxPartitions}

InitAdd ==
    /\ col_names \in {<<"a", "b">>, <<"a", "X2">>}
    /\ column_types = <<"int", "int">>
    /\ rdd \in {SubSeq(AddRows, 1, n) : n \in 0..MaxAddRows}
    /\ has_iter_pos = FALSE
    /\ iter_pos = 0
    /\ materialized = FALSE
    /\ last = NoCall
    /\ nops = 0
    /\ args \in AddArgs

add_column_of_args ==
    /\ nops < MaxTableOps
    /\ add_column_call(args.data, args.name, args.num_partitions)

NextAdd == add_column_of_args

SpecAdd == InitAdd /\ [][NextAdd]_vars

\* the name add_column is about to use: the given one, or X<k> with k the
\* current column count when none is given
NameToAdd == IF args.name = "" THEN "X" \o ToString(Len(col_names)) ELSE args.name

\* C15: a call of add_column whose name (given, or synthesized as X<k>) is
\* already a column name raises and leaves the column names, column types
\* and rows as they were.
C15_AddColumnDuplicateName ==
    [][(last'.op = "add_column" /\ NameToAdd \in Range(col_names)) =>
           /\ last'.rk = "raise"
           /\ UNCHANGED <<col_names, column_types, rdd>>]_vars

\* the call without a name on the table (a, X2) has raised: the synthesized
\* name X2 is taken
C15_Witness ==
    /\ last.op = "add_column" /\ last.rk = "raise"
    /\ args.name = "" /\ col_names = <<"a", "X2">>

\* C16: add_column succeeds only when the array has as many elements as the
\* table has rows, and no row of the table is lost.
C16_AddColumnLengthCheck ==
    (last.op = "add_column" /\ last.rk = "self") =>
        /\ Len(args.data.rdd) = Len(last.before.rdd)
        /\ Len(rdd) = Len(last.before.rdd)

\* C17: append(other) raises when other's column names or types differ
\* from the table's; when they are the same the result has the rows of
\* both, |self| + |other| of them, under the same schema.
C17_AppendSchemaCheck ==
    last.op = "append" =>
        IF last.other.col_names # col_names \/ last.other.column_types # column_types
        THEN last.rk = "raise"
        ELSE /\ last.rk = "table"
             /\ Len(last.ret.rdd) = Len(rdd) + Len(last.other.rdd)
             /\ last.ret.col_names = col_names
             /\ last.ret.column_types = column_types

(***************************************************************************)
(* Caching.  An operation's calls of cache and uncache and the actions     *)
(* that evaluate a collection are recorded in program order; a             *)
(* transformation (map, filter, keys) is lazy and evaluates nothing.       *)
(***************************************************************************)
MaxEvents == 4

\* cache(rdd)
cache(collection) == [e |-> "cache", c |-> collection]

\* uncache(rdd)
uncache(collection) == [e |-> "uncache", c |-> collection]

\* an action (count, first, collect) on an rdd that is computed from the
\* collection
evaluate(collection) == [e |-> "evaluate", c |-> collection]

(***************************************************************************)
(* load_from_csv.                                                          *)
(*                                                                         *)
(* A line is its sequence of characters.  The delimiter is the comma and   *)
(* no quote or escape character occurs in the lines, so csv.reader splits  *)
(* a line at its commas; the empty line reads as the empty list.  A field  *)
(* is kept as its sequence of characters until it is cast.                 *)
(***************************************************************************)
RECURSIVE csv_reader_next(_, _, _)
csv_reader_next(chars, field, fields) ==
    IF Len(chars) = 0 THEN Append(fields, field)
    ELSE IF Head(chars) = ","
         THEN csv_reader_next(Tail(chars), <<>>, Append(fields, field))
         ELSE csv_reader_next(Tail(chars), Append(field, Head(chars)), fields)

csv_to_array(line) == IF Len(line) = 0 THEN <<>> ELSE csv_reader_next(line, <<>>, <<>>)

\* the Python string of a sequence of characters
RECURSIVE py_string(_)
py_string(chars) == IF Len(chars) = 0 THEN "" ELSE Head(chars) \o py_string(Tail(chars))

\* item.strip()
RECURSIVE strip(_)
strip(chars) ==
    IF Len(chars) = 0 THEN chars
    ELSE IF Head(chars) = " " THEN strip(Tail(chars))
    ELSE IF chars[Len(chars)] = " " THEN strip(SubSeq(chars, 1, Len(chars) - 1))
    ELSE chars

\* sc.parallelize(lines, p) puts position k of n in the slice i with
\* i*n/p <= k < (i+1)*n/p; sc.textFile(path) makes contiguous splits with
\* the first line in the first split
slice_of(k, n, p, parallelized) ==
    IF parallelized
    THEN CHOOSE i \in 0..(p - 1) : (i * n) \div p <= k /\ k < ((i + 1) * n) \div p
    ELSE k \div ((n + p - 1) \div p)

\* rdd.zipWithUniqueId(): the j-th item of partition i gets the id j*p + i
zipWithUniqueId(rows, p, parallelized) ==
    LET n == Len(rows)
        part(k) == slice_of(k, n, p, parallelized)
        local(k) == Cardinality({q \in 0..(k - 1) : part(q) = part(k)})
    IN  [k \in 1..n |-> <<rows[k], local(k - 1) * p + part(k - 1)>>]

attach_flag(val_index, use_header) ==
    LET val == val_index[1]
        idx == val_index[2]
        flag == idx # 0 \/ ~use_header
    IN  <<flag, val>>

audit_col_count(flag_row, col_count) ==
    LET flag == flag_row[1] /\ Len(flag_row[2]) = col_count
    IN  <<flag, flag_row[2]>>

\* [None if val in na_values else val for val in row]
apply_na(row, na_values) ==
    [i \in 1..Len(row) |-> IF py_string(row[i]) \in Range(na_values) THEN None ELSE [t |-> "raw", v |-> row[i]]]

is_digit(c) == c \in {"0", "1", "2", "3", "4", "5", "6", "7", "8", "9"}

digit_value(c) ==
    CASE c = "0" -> 0 [] c = "1" -> 1 [] c = "2" -> 2 [] c = "3" -> 3 [] c = "4" -> 4
      [] c = "5" -> 5 [] c = "6" -> 6 [] c = "7" -> 7 [] c = "8" -> 8 [] c = "9" -> 9

RECURSIVE decimal(_)
decimal(chars) ==
    IF Len(chars) = 0 THEN 0
    ELSE 10 * decimal(SubSeq(chars, 1, Len(chars) - 1)) + digit_value(chars[Len(chars)])

\* typ(val) for the types str, int and float on a string of letters and
\* digits: int and float raise ValueError unless every character is a digit
construct(typ, chars) ==
    CASE typ = "str" -> PyStr(py_string(chars))
      [] typ = "int" /\ (\A i \in 1..Len(chars) : is_digit(chars[i])) -> PyInt(decimal(chars))
      [] typ = "float" /\ (\A i \in 1..Len(chars) : is_digit(chars[i])) -> PyFloat(decimal(chars))
      [] OTHER -> [t |-> "ValueError", v |-> 0]

cast_val(val, typ) ==
    IF val = None THEN None
    ELSE IF Len(val.v) = 0 THEN PyInt(0)
    ELSE construct(typ, val.v)

cast_row(row, types) == [i \in 1..Min(Len(row), Len(types)) |-> cast_val(row[i], types[i])]

\* the bound on calls of load_from_csv
MaxLoads == 1

\* load_from_csv(path, parsing_config, type_hints) with the file's lines,
\* use_header, row_limit (0: none; up to 100: take and parallelize),
\* na_values and type_hints = {'__all_columns__': typ} held in args; no
\* comment_char.  res.first() raises on a file without lines.  A cast that
\* raises does so when the rows are computed: the row holds the error.
load_from_csv ==
    LET row_limit == args.row_limit
        use_header == args.use_header
        na_values == args.na_values
        p == args.num_partitions
        raw == IF row_limit # 0 THEN SubSeq(args.lines, 1, Min(row_limit, Len(args.lines)))
               ELSE args.lines
        res == [i \in 1..Len(raw) |-> csv_to_array(raw[i])]
        first == res[1]
        names == IF use_header THEN [i \in 1..Len(first) |-> py_string(strip(first[i]))]
                 ELSE [i \in 1..Len(first) |-> "X." \o ToString(i - 1)]
        col_count == Len(names)
        with_id == zipWithUniqueId(res, p, row_limit # 0 /\ row_limit <= 100)
        flagged == [i \in 1..Len(with_id) |-> attach_flag(with_id[i], use_header)]
        audited == [i \in 1..Len(flagged) |-> audit_col_count(flagged[i], col_count)]
        before_count == Len(audited)
        filtered == values(SelectSeq(audited, LAMBDA fv : fv[1]))
        after_count == Len(filtered)
        filter_diff == before_count - after_count - (IF use_header THEN 1 ELSE 0)
        types == [i \in 1..Len(first) |-> args.typ]
        cast == [i \in 1..Len(filtered) |-> cast_row(apply_na(filtered[i], na_values), types)]
        \* the cache calls on pairs and the actions that evaluate it
        \* afterwards: first() and the two count()
        events == IF row_limit > 100
                  THEN <<cache("pairs"), uncache("pairs"),
                         evaluate("pairs"), evaluate("pairs"), evaluate("pairs")>>
                  ELSE <<>>
    IN  /\ nops < MaxLoads
        /\ IF Len(raw) = 0
           THEN raise("load_from_csv")
           ELSE /\ rdd' = cast
                /\ col_names' = names
                /\ column_types' = types
                /\ materialized' = FALSE
                /\ nops' = nops + 1
                /\ last' = [op |-> "load_from_csv", rk |-> "self", ret |-> NoTable,
                            returned |-> PyDict(<<>>), filter_diff |-> filter_diff,
                            fields |-> filtered, events |-> events, reads |-> ""]
                /\ UNCHANGED <<has_iter_pos, iter_pos, args>>

(***************************************************************************)
(* Specification of load_from_csv: files of up to MaxCsvLines lines of up  *)
(* to MaxLineLen characters, each the digit 1 or the comma.                 *)
(***************************************************************************)
MaxCsvLines == 2

MaxLineLen == 3

CsvChars == {"1", ","}

\* the calls on the files of up to max_lines lines
CsvArgs(max_lines) ==
    {[lines |-> l, use_header |-> h, typ |-> t, na_values |-> <<na>>,
      row_limit |-> lp[1], num_partitions |-> lp[2]] :
        l \in SeqsUpTo(SeqsUpTo(CsvChars, MaxLineLen), max_lines), h \in BOOLEAN,
        t \in {"str", "int", "float"}, na \in {"11", ""}, lp \in {<<0, 1>>, <<1, MaxPartitions>>}}

InitCsv ==
    /\ col_names = <<>>
    /\ column_types = <<>>
    /\ rdd = <<>>
    /\ has_iter_pos = FALSE
    /\ iter_pos = 0
    /\ materialized = FALSE
    /\ last = NoCall
    /\ nops = 0
    /\ args \in CsvArgs(MaxCsvLines)

NextCsv == load_from_csv

SpecCsv == InitCsv /\ [][NextCsv]_vars

\* the lines load_from_csv reads: the first row_limit lines of the file
LinesRead ==
    IF args.row_limit # 0 THEN SubSeq(args.lines, 1, Min(args.row_limit, Len(args.lines)))
    ELSE args.lines

\* the number of fields of a line: one more than its commas, none for the
\* empty line
FieldCount(line) ==
    IF Len(line) = 0 THEN 0 ELSE 1 + Cardinality({i \in 1..Len(line) : line[i] = ","})

\* the lines after the header
DataLines == IF args.use_header THEN Tail(LinesRead) ELSE LinesRead

\* the positions of the data lines with as many fields as the first line
\* (Matching) or with another number of fields (not Matching)
DataLinesWith(Matching) ==
    {i \in 1..Len(DataLines) : (FieldCount(DataLines[i]) = FieldCount(LinesRead[1])) = Matching}

\* C18: load_from_csv drops the header row (when use_header) and every row
\* whose field count differs from the detected column count, keeps every
\* other row, and returns to the caller the number of non-header rows with
\* a mismatching field count.
C18_CsvDroppedRowCount ==
    (last.op = "load_from_csv" /\ last.rk = "self") =>
        /\ Len(rdd) = Cardinality(DataLinesWith(TRUE))
        /\ last.returned = PyInt(Cardinality(DataLinesWith(FALSE)))

\* the values the claim allows for a field of a column of type typ
ClaimedCast(field, typ) ==
    IF py_string(field) \in Range(args.na_values) THEN {None}
    ELSE IF Len(field) = 0
         THEN (IF typ \in {"int", "float"} THEN {PyInt(0), PyFloat(0)} ELSE {PyStr("")})
    ELSE {construct(typ, field)}

\* C19: in a loaded table a field that is an na value is None, an empty
\* field is zero in an int or float column and the empty string in a str
\* column, and every other field is what the constructor of the column's
\* type makes of it.
C19_CsvCast ==
    (last.op = "load_from_csv" /\ last.rk = "self") =>
        \A r \in 1..Len(rdd) : \A c \in 1..Len(rdd[r]) :
            rdd[r][c] \in ClaimedCast(last.fields[r][c], column_types[c])

(***************************************************************************)
(* sort.                                                                   *)
(*                                                                         *)
(* A partitioned row sequence is the sequence of its partitions.           *)
(* rdd.sortBy(keyfunc) samples the keys for the bounds of a range          *)
(* partitioner, sends each row to the partition of its key, and sorts each *)
(* partition with Python's stable sort; both use only the < of the keys.   *)
(* The rows reach a partition grouped by the partition they come from, the *)
(* groups in any order.                                                    *)
(***************************************************************************)
\* left < right on column values: None is smaller than every number
py_less(left, right) ==
    IF left = None THEN right # None
    ELSE IF right = None THEN FALSE
    ELSE left.v < right.v

\* CmpRows.less over zip(indexes, ascending), from pair number i on
RECURSIVE less_from(_, _, _, _, _)
less_from(row, other, indexes, ascending, i) ==
    IF i > Min(Len(indexes), Len(ascending)) THEN FALSE
    ELSE LET left == row[indexes[i]]
             right == other[indexes[i]]
         IN  IF py_less(left, right) THEN ascending[i]
             ELSE IF py_less(right, left) THEN ~ascending[i]
             ELSE less_from(row, other, indexes, ascending, i + 1)

less(row, other, indexes, ascending) == less_from(row, other, indexes, ascending, 1)

\* insertion in front of the rows that are not smaller
insort_left(lst, row, indexes, ascending) ==
    LET before == {i \in 1..Len(lst) : less(lst[i], row, indexes, ascending)}
        n == Cardinality(before)
    IN  SubSeq(lst, 1, n) \o <<row>> \o SubSeq(lst, n + 1, Len(lst))

\* insertion behind the rows that are not greater: the place a stable sort
\* gives a row that comes after them
insort_right(lst, row, indexes, ascending) ==
    LET after == {i \in 1..Len(lst) : less(row, lst[i], indexes, ascending)}
        n == Len(lst) - Cardinality(after)
    IN  SubSeq(lst, 1, n) \o <<row>> \o SubSeq(lst, n + 1, Len(lst))

\* sorted(rows, key=keyfunc): stable, by < alone
RECURSIVE sorted(_, _, _)
sorted(rows, indexes, ascending) ==
    IF Len(rows) = 0 THEN <<>>
    ELSE insort_right(sorted(SubSeq(rows, 1, Len(rows) - 1), indexes, ascending),
                      rows[Len(rows)], indexes, ascending)

\* bisect.bisect_left(bounds, key)
bisect_left(bounds, row, indexes, ascending) ==
    Cardinality({i \in 1..Len(bounds) : less(bounds[i], row, indexes, ascending)})

\* the orders in which n blocks can arrive: the permutations of 1..n
ArrivalOrders(n) == {f \in [1..n -> 1..n] : \A i \in 1..n : \E j \in 1..n : f[j] = i}

\* sc.parallelize(rows, p): the partitions of a table given as a list
parallelize(rows, p) ==
    [q \in 1..p |-> SubSeq(rows, ((q - 1) * Len(rows)) \div p + 1, (q * Len(rows)) \div p)]

\* the bounds of the range partitioner: the keys at the p-quantiles of the
\* sorted sample, which for a small rdd holds every row
range_bounds(parts, indexes, ascending) ==
    LET numPartitions == Len(parts)
        samples == sorted(flatMap(parts), indexes, ascending)
    IN  [i \in 1..(numPartitions - 1) |-> samples[(Len(samples) * i) \div numPartitions + 1]]

\* partition q of the shuffle, sorted: the blocks of the map partitions
\* arrive in the given order
sortPartition(parts, bounds, q, order, indexes, ascending) ==
    LET rangePartitioner(row) == bisect_left(bounds, row, indexes, ascending) + 1
        block(m) == SelectSeq(parts[m], LAMBDA row : rangePartitioner(row) = q)
    IN  sorted(flatMap([k \in 1..Len(parts) |-> block(order[k])]), indexes, ascending)

\* the results rdd.sortBy(key_fn) can give on the partitions parts, each
\* partition of the result with its own arrival order
RECURSIVE sortBy_partitions(_, _, _, _, _)
sortBy_partitions(parts, bounds, q, indexes, ascending) ==
    IF q = 0 THEN {<<>>}
    ELSE LET outcomes == {sortPartition(parts, bounds, q, order, indexes, ascending) :
                             order \in ArrivalOrders(Len(parts))}
         IN  {Append(res, o) : res \in sortBy_partitions(parts, bounds, q - 1, indexes, ascending),
                               o \in outcomes}

sortBy(parts, indexes, ascending) ==
    LET numPartitions == Len(parts)
        rddSize == Len(flatMap(parts))
    IN  IF numPartitions = 1 THEN {<<sorted(flatMap(parts), indexes, ascending)>>}
        ELSE IF rddSize = 0 THEN {parts}
        ELSE sortBy_partitions(parts, range_bounds(parts, indexes, ascending), numPartitions,
                               indexes, ascending)

\* the bound on successive sorts
MaxSorts == 2

\* self.sort(sort_column_names, sort_column_orders): index() raises
\* ValueError for an unknown name
sort ==
    LET sort_column_names == args.sort_column_names
        sort_column_orders == args.sort_column_orders
        sort_column_indexes == [i \in 1..Len(sort_column_names) |-> index(col_names, sort_column_names[i])]
    IN  /\ last.op # "sort"
        /\ IF ~has_names(col_names, sort_column_names)
           THEN raise("sort")
           ELSE \E res \in sortBy(parallelize(rdd, args.num_partitions),
                                          sort_column_indexes, sort_column_orders) :
                  /\ last' = [op |-> "sort", rk |-> "table",
                              ret |-> Table(col_names, column_types, flatMap(res)),
                              parts |-> res, input |-> rdd, times |-> 1]
                  /\ UNCHANGED <<col_names, column_types, rdd, has_iter_pos, iter_pos,
                                 materialized, nops, args>>

\* the same sort called on the table the last sort returned
sort_of_result ==
    LET sort_column_names == args.sort_column_names
        sort_column_orders == args.sort_column_orders
        sort_column_indexes == [i \in 1..Len(sort_column_names) |->
                                   index(last.ret.col_names, sort_column_names[i])]
    IN  /\ last.op = "sort" /\ last.rk = "table" /\ last.times < MaxSorts
        /\ \E res \in sortBy(last.parts, sort_column_indexes, sort_column_orders) :
             /\ last' = [op |-> "sort", rk |-> "table",
                         ret |-> Table(last.ret.col_names, last.ret.column_types, flatMap(res)),
                         parts |-> res, input |-> last.ret.rdd, times |-> last.times + 1]
             /\ UNCHANGED <<col_names, column_types, rdd, has_iter_pos, iter_pos,
                            materialized, nops, args>>

(***************************************************************************)
(* Specification of sort: a table (k, j) of up to MaxSortRows rows,        *)
(* sorted on k, on j or on both in either direction, then sorted again.    *)
(***************************************************************************)
MaxSortRows == 3

SortRows == {<<k, j>> : k \in {PyInt(1), PyInt(2)}, j \in {None, PyInt(1)}}

SortArgs ==
    {[sort_column_names |-> c, sort_column_orders |-> o, num_partitions |-> p] :
        c \in {<<"k">>, <<"j">>, <<"k", "j">>, <<"z">>}, o \in SeqsUpTo(BOOLEAN, 2),
        p \in 1..MaxPartitions}

InitSort ==
    /\ col_names = <<"k", "j">>
    /\ column_types = <<"int", "int">>
    /\ rdd \in SeqsUpTo(SortRows, MaxSortRows)
    /\ has_iter_pos = FALSE
    /\ iter_pos = 0
    /\ materialized = FALSE
    /\ last = NoCall
    /\ nops = 0
    /\ args \in {a \in SortArgs : Len(a.sort_column_orders) = Len(a.sort_column_names)}

NextSort == sort \/ sort_of_result

SpecSort == InitSort /\ [][NextSort]_vars

C21_QuantileRaises ==
    (last.op = "groupby_aggregate" /\ "__builtin__quantile__" \in Range(last.group_ops)) =>
        last.rk = "raise"

(***************************************************************************)
(* random_split.  rng is created once in the driver and captured by the    *)
(* lambda of rand_col; the lambda is pickled with the rng in its seeded    *)
(* state, and every task of every evaluation unpickles its own copy.       *)
(* uniform is the sequence of numbers Random(seed).uniform(0.0, 1.0)       *)
(* yields, in tenths.                                                      *)
(***************************************************************************)
\* rand_col of one partition if the tasks of a later evaluation went on with
\* the rng where the earlier evaluations left it
rand_col_advancing_rng(part, uniform, evaluation) ==
    [j \in 1..Len(part) |-> uniform[(evaluation - 1) + j]]

\* self.rdd.map(lambda row: rng.uniform(0.0, 1.0)) on one partition, in the
\* given evaluation of the rdd: the task draws from its own copy of rng
rand_col(part, uniform, evaluation) ==
    [j \in 1..Len(part) |-> uniform[j]]

\* labeled_rdd as one evaluation computes it
labeled_rdd(parts, uniform, evaluation) ==
    safeZip(flatMap(parts),
            flatMap([q \in 1..Len(parts) |-> rand_col(parts[q], uniform, evaluation)]),
            Len(parts))

\* self.random_split(fraction, seed): rdd1 and rdd2 are evaluated
\* separately, each from its own evaluation of labeled_rdd
random_split ==
    LET fraction == args.fraction
        parts == parallelize(rdd, args.num_partitions)
        rdd1 == keys(SelectSeq(labeled_rdd(parts, args.uniform, 1), LAMBDA row : row[2] < fraction))
        rdd2 == keys(SelectSeq(labeled_rdd(parts, args.uniform, 2), LAMBDA row : row[2] >= fraction))
    IN  /\ last' = [op |-> "random_split", rk |-> "tables",
                    ret |-> Table(col_names, column_types, rdd1),
                    ret2 |-> Table(col_names, column_types, rdd2),
                    events |-> <<uncache("labeled_rdd")>>, reads |-> "labeled_rdd"]
        /\ UNCHANGED <<col_names, column_types, rdd, has_iter_pos, iter_pos,
                       materialized, nops, args>>

(***************************************************************************)
(* Specification of random_split: a table (a) of up to MaxSplitRows rows,  *)
(* some of them equal, in up to MaxPartitions partitions, split at the     *)
(* fractions 0.0, 0.5 and 1.0 for every sequence of draws.                 *)
(***************************************************************************)
MaxSplitRows == 3

SplitArgs(max_rows) ==
    {[fraction |-> f, uniform |-> u, num_partitions |-> p] :
        f \in {0, 5, 10}, u \in [1..(max_rows + 1) -> {0, 5}], p \in 1..MaxPartitions}

InitSplit ==
    /\ col_names = <<"a">>
    /\ column_types = <<"int">>
    /\ rdd \in SeqsUpTo({<<PyInt(1)>>, <<PyInt(2)>>}, MaxSplitRows)
    /\ has_iter_pos = FALSE
    /\ iter_pos = 0
    /\ materialized = FALSE
    /\ last = NoCall
    /\ nops = 0
    /\ args \in SplitArgs(MaxSplitRows)

NextSplit == random_split

SpecSplit == InitSplit /\ [][NextSplit]_vars

C23_RightJoinKeepsKeys ==
    (last.op = "join" /\ last.how = "right" /\ last.rk = "table") =>
        LET R == last.right
            nulls == [c \in 1..Len(col_names) |-> None]
        IN  \A j \in 1..Len(R.rdd) :
                (\A i \in 1..Len(rdd) : ~KeysAgree(rdd[i], R.rdd[j], Self, R, last.join_keys)) =>
                    \E k \in 1..Len(last.ret.rdd) : last.ret.rdd[k] = nulls \o R.rdd[j]

(***************************************************************************)
(* Specification of remove_columns: a table (a, b, c) and every list of    *)
(* up to MaxNames names, in any order, a name possibly more than once.     *)
(***************************************************************************)
MaxNames == 2

MaxRemoveRows == 2

RemoveRows == {<<PyInt(x), PyInt(y), PyStr(z)>> : x \in 1..2, y \in 3..4, z \in {"p"}}

InitRemove ==
    /\ col_names = <<"a", "b", "c">>
    /\ column_types = <<"int", "int", "str">>
    /\ rdd \in SeqsUpTo(RemoveRows, MaxRemoveRows)
    /\ has_iter_pos = FALSE
    /\ iter_pos = 0
    /\ materialized = FALSE
    /\ last = NoCall
    /\ nops = 0
    /\ args \in [names : SeqsUpTo({"a", "b", "c", "z"}, MaxNames)]

remove_columns_of_args ==
    /\ last.op # "remove_columns"
    /\ remove_columns_call(args.names)

NextRemove == remove_columns_of_args

SpecRemove == InitRemove /\ [][NextRemove]_vars

\* the positions of the columns of the table before the call that are not
\* named, in their order
KeptColumns == SelectSeq([i \in 1..Len(last.before.col_names) |-> i],
                         LAMBDA i : last.before.col_names[i] \notin Range(args.names))

\* C24: remove_columns(names) with existing names leaves the names, the
\* types and the values of every row of the columns not named, in their
\* order; with a name that does not exist it raises and leaves the table
\* as it was.
C24_RemoveColumnsExactly ==
    /\ (last.op = "remove_columns" /\ "z" \notin Range(args.names)) =>
           /\ last.rk = "self"
           /\ col_names = [k \in 1..Len(KeptColumns) |-> last.before.col_names[KeptColumns[k]]]
           /\ column_types = [k \in 1..Len(KeptColumns) |-> last.before.column_types[KeptColumns[k]]]
           /\ rdd = [i \in 1..Len(last.before.rdd) |->
                        [k \in 1..Len(KeptColumns) |-> last.before.rdd[i][KeptColumns[k]]]]
    /\ (last.op = "remove_columns" /\ "z" \in Range(args.names)) =>
           /\ last.rk = "raise"
           /\ col_names = <<"a", "b", "c">> /\ column_types = <<"int", "int", "str">>

(***************************************************************************)
(* The row comparator CmpRows.                                             *)
(***************************************************************************)
\* CmpRows.greater over zip(indexes, ascending), from pair number i on
RECURSIVE greater_from(_, _, _, _, _)
greater_from(row, other, indexes, ascending, i) ==
    IF i > Min(Len(indexes), Len(ascending)) THEN FALSE
    ELSE LET left == row[indexes[i]]
             right == other[indexes[i]]
         IN  IF py_less(right, left) THEN ascending[i]
             ELSE IF py_less(left, right) THEN ~ascending[i]
             ELSE greater_from(row, other, indexes, ascending, i + 1)

greater(row, other, indexes, ascending) == greater_from(row, other, indexes, ascending, 1)

\* CmpRows.equal: the loop is over self.indexes, not over the zip
equal(row, other, indexes) ==
    \A i \in 1..Len(indexes) :
        LET left == row[indexes[i]]
            right == other[indexes[i]]
        IN  ~py_less(right, left) /\ ~py_less(left, right)

\* CmpRows.__le__: 'return selfless(other) or self.equal(other)'.  No
\* local, global or builtin name selfless is bound, so the lookup of the
\* name raises NameError before anything is compared
le(row, other, indexes, ascending) == [rk |-> "raise", exc |-> "NameError", ret |-> FALSE]

\* the three comparisons of the wrapped rows of args, and greater with the
\* rows exchanged
compare ==
    /\ last.op = "none"
    /\ last' = [op |-> "compare", rk |-> "bool",
                less |-> less(args.row, args.other, args.indexes, args.ascending),
                greater |-> greater(args.row, args.other, args.indexes, args.ascending),
                equal |-> equal(args.row, args.other, args.indexes),
                greater_exchanged |-> greater(args.other, args.row, args.indexes, args.ascending)]
    /\ UNCHANGED <<col_names, column_types, rdd, has_iter_pos, iter_pos, materialized, nops, args>>

\* CmpRows(row, indexes, ascending) <= CmpRows(other, indexes, ascending)
compare_le ==
    /\ last.op = "none"
    /\ LET out == le(args.row, args.other, args.indexes, args.ascending)
       IN  last' = [op |-> "__le__", rk |-> out.rk, exc |-> out.exc, ret |-> out.ret]
    /\ UNCHANGED <<col_names, column_types, rdd, has_iter_pos, iter_pos, materialized, nops, args>>

(***************************************************************************)
(* Specification of the comparator: two rows of two columns over None, 1   *)
(* and 2, with every index list and every direction list of up to         *)
(* MaxCmpCols entries, of equal or of different lengths.                   *)
(***************************************************************************)
MaxCmpCols == 2

CmpValues == {None, PyInt(1), PyInt(2)}

CmpArgs(max_cols) ==
    [row : CmpValues \X CmpValues, other : CmpValues \X CmpValues,
     indexes : SeqsUpTo({1, 2}, max_cols), ascending : SeqsUpTo(BOOLEAN, max_cols)]

InitCmp ==
    /\ col_names = <<"a", "b">>
    /\ column_types = <<"int", "int">>
    /\ rdd = <<>>
    /\ has_iter_pos = FALSE
    /\ iter_pos = 0
    /\ materialized = FALSE
    /\ last = NoCall
    /\ nops = 0
    /\ args \in CmpArgs(MaxCmpCols)

NextCmp == compare \/ compare_le

SpecCmp == InitCmp /\ [][NextCmp]_vars

\* C25: <= on two wrapped rows does not raise and is true iff the first row
\* is less than or equal to the second, that is iff it is not greater.
C25_LessOrEqual ==
    last.op = "__le__" =>
        /\ last.rk = "bool"
        /\ last.ret = (\/ less(args.row, args.other, args.indexes, args.ascending)
                       \/ equal(args.row, args.other, args.indexes))

\* the pairs of zip(indexes, ascending) on which the two rows differ
DifferingPairs ==
    {i \in 1..Min(Len(args.indexes), Len(args.ascending)) :
        args.row[args.indexes[i]] # args.other[args.indexes[i]]}

\* the outcome of the lexicographic comparison: that of the first listed
\* column where the rows differ, in the direction of that column
Lexicographic ==
    IF \A i \in 1..Len(args.indexes) : args.row[args.indexes[i]] = args.other[args.indexes[i]]
    THEN "equal"
    ELSE IF DifferingPairs = {} THEN "undecided"
    ELSE LET i == CHOOSE d \in DifferingPairs : \A e \in DifferingPairs : d <= e
         IN  IF py_less(args.row[args.indexes[i]], args.other[args.indexes[i]]) = args.ascending[i]
             THEN "less" ELSE "greater"

\* C26: exactly one of less, greater and equal holds of two rows, less(a, b)
\* is greater(b, a), and the one that holds is the outcome of the
\* lexicographic comparison, also when the index list and the direction
\* list have different lengths.
C26_Trichotomy ==
    last.op = "compare" =>
        /\ Cardinality({o \in {"less", "greater", "equal"} :
               \/ (o = "less" /\ last.less)
               \/ (o = "greater" /\ last.greater)
               \/ (o = "equal" /\ last.equal)}) = 1
        /\ last.less = last.greater_exchanged
        /\ Lexicographic = "less" => last.less
        /\ Lexicographic = "greater" => last.greater
        /\ Lexicographic = "equal" => last.equal

(***************************************************************************)
(* Specification of the cursor under in-place operations: a table (a, b)   *)
(* that is iterated over and has a column added or removed in between.     *)
(***************************************************************************)
CursorRows == {<<PyInt(1), PyInt(3)>>, <<PyInt(2), PyInt(4)>>}

InitCursor ==
    /\ col_names = <<"a", "b">>
    /\ column_types = <<"int", "int">>
    /\ rdd \in SeqsUpTo(CursorRows, MaxRows)
    /\ has_iter_pos = FALSE
    /\ iter_pos = 0
    /\ materialized = FALSE
    /\ last = NoCall
    /\ nops = 0
    /\ args = NoArgs

\* remove_columns called in a sequence of calls on the table
remove_columns_in_sequence ==
    /\ nops < MaxOps
    /\ \E names \in {<<"b">>, <<"a", "b">>} : remove_columns_call(names)

\* add_column called in a sequence of calls on the table
add_column_in_sequence ==
    /\ nops < MaxOps
    /\ \E data \in Arrays, num_partitions \in 1..MaxPartitions :
         add_column_call(data, "n", num_partitions)

NextCursor ==
    \/ begin_iterator
    \/ iterator_get_next
    \/ remove_columns_in_sequence
    \/ add_column_in_sequence

SpecCursor == InitCursor /\ [][NextCursor]_vars

\* C27: when an operation has replaced the row sequence of a table that
\* has a cursor, the cursor is where begin_iterator puts it, not where the
\* iteration over the previous row sequence left it.
C27_CursorReset ==
    (last.op \in {"add_column", "remove_columns"} /\ last.rk = "self" /\ has_iter_pos) =>
        iter_pos = -1

(***************************************************************************)
(* head and tail.                                                          *)
(***************************************************************************)
\* self.head(n): up to 100 rows are taken and parallelized; beyond that
\* the rows are numbered and filtered, and self.materialized is set
head ==
    \E n \in {0, 1, 2, 101} :
        IF n <= 100
        THEN LET data == SubSeq(rdd, 1, Min(n, Len(rdd)))
             IN  /\ last' = [op |-> "head", rk |-> "table", n |-> n,
                             ret |-> Table(col_names, column_types, data),
                             events |-> <<>>, reads |-> ""]
                 /\ UNCHANGED <<col_names, column_types, rdd, has_iter_pos, iter_pos,
                                materialized, nops, args>>
        ELSE LET pairs == zipWithIndex(rdd)
                 filtered_pairs == SelectSeq(pairs, LAMBDA x : x[2] < n)
                 res == keys(filtered_pairs)
             IN  /\ last' = [op |-> "head", rk |-> "table", n |-> n,
                             ret |-> Table(col_names, column_types, res),
                             events |-> <<cache("pairs"), uncache("pairs")>>, reads |-> "pairs"]
                 /\ materialized' = TRUE
                 /\ UNCHANGED <<col_names, column_types, rdd, has_iter_pos, iter_pos, nops, args>>

\* self.tail(n): pairs.count() is the one action of the call
tail ==
    \E n \in {0, 1, 2, 101} :
        LET pairs == zipWithIndex(rdd)
            start == Len(pairs) - n
            filtered_pairs == SelectSeq(pairs, LAMBDA x : x[2] >= start)
            res == [i \in 1..Len(filtered_pairs) |-> filtered_pairs[i][1]]
        IN  /\ last' = [op |-> "tail", rk |-> "table", n |-> n,
                        ret |-> Table(col_names, column_types, res),
                        events |-> <<cache("pairs"), evaluate("pairs"), uncache("pairs")>>,
                        reads |-> "pairs"]
            /\ UNCHANGED <<col_names, column_types, rdd, has_iter_pos, iter_pos,
                           materialized, nops, args>>

\* the caller runs an action (collect, count) on a table the last call
\* returned: the rdd of the table is evaluated now, and with it the
\* collection it is computed from
evaluate_result ==
    /\ last.rk \in {"table", "tables"}
    /\ last.op \in {"head", "tail", "random_split"}
    /\ last.reads # ""
    /\ Len(last.events) < MaxEvents
    /\ last' = [last EXCEPT !.events = Append(@, evaluate(last.reads))]
    /\ UNCHANGED <<col_names, column_types, rdd, has_iter_pos, iter_pos, materialized, nops, args>>

(***************************************************************************)
(* Specification of the operations that reuse an intermediate collection:  *)
(* head, tail, random_split and load_from_csv with a row limit, each       *)
(* followed by the caller's evaluation of what it returned.                *)
(***************************************************************************)
CacheArgs ==
    {[lines |-> << <<"1", ",", "1">>, <<"1">> >>, use_header |-> FALSE, typ |-> "int",
      na_values |-> <<"">>, row_limit |-> l, num_partitions |-> p,
      fraction |-> 5, uniform |-> u] :
        l \in {0, 1, 101}, p \in 1..MaxPartitions,
        u \in {[j \in 1..(MaxRows + 1) |-> 0], [j \in 1..(MaxRows + 1) |-> 5]}}

InitCache ==
    /\ col_names = <<"a">>
    /\ column_types = <<"int">>
    /\ rdd \in SeqsUpTo({<<PyInt(1)>>, <<PyInt(2)>>}, MaxRows)
    /\ has_iter_pos = FALSE
    /\ iter_pos = 0
    /\ materialized = FALSE
    /\ last = NoCall
    /\ nops = 0
    /\ args \in CacheArgs

NextCache == head \/ tail \/ random_split \/ load_from_csv \/ evaluate_result

SpecCache == InitCache /\ [][NextCache]_vars

\* C28: every uncache of a collection comes after a cache of the same
\* collection and after the last evaluation that reads the collection.
C28_CacheDiscipline ==
    (last.op \in {"head", "tail", "random_split", "load_from_csv"} /\ last.rk # "raise") =>
        \A i \in 1..Len(last.events) :
            last.events[i].e = "uncache" =>
                /\ \E j \in 1..(i - 1) : last.events[j] = cache(last.events[i].c)
                /\ \A j \in (i + 1)..Len(last.events) : last.events[j] # evaluate(last.events[i].c)

\* C29: add_column of an array with as many elements as the table has rows
\* gives, at every position i, the table's former row i extended with the
\* array's element i.
C29_AddColumnKeepsPositions ==
    (last.op = "add_column" /\ last.rk = "self"
       /\ Len(args.data.rdd) = Len(last.before.rdd)) =>
        rdd = [i \in 1..Len(last.before.rdd) |-> last.before.rdd[i] \o <<args.data.rdd[i]>>]

(***************************************************************************)
(* Materialization.                                                        *)
(***************************************************************************)
\* self.materialize(): _count() runs count() on self.rdd and sets the flag
materialize ==
    /\ materialized' = TRUE
    /\ last' = [op |-> "materialize", rk |-> "none", ret |-> NoTable]
    /\ UNCHANGED <<col_names, column_types, rdd, has_iter_pos, iter_pos, nops, args>>

\* self.num_rows(): the count _count() returns
num_rows ==
    /\ materialized' = TRUE
    /\ last' = [op |-> "num_rows", rk |-> "int", ret |-> NoTable, count |-> Len(rdd)]
    /\ UNCHANGED <<col_names, column_types, rdd, has_iter_pos, iter_pos, nops, args>>

\* self.set_column_name(old_name, new_name): the name is assigned in
\* place; _replace is not called
set_column_name ==
    /\ nops < MaxOps
    /\ \E old_name \in {"a", "z"}, new_name \in {"c"} :
         IF old_name \notin Range(col_names)
         THEN raise("set_column_name")
         ELSE /\ col_names' = [col_names EXCEPT ![index(col_names, old_name)] = new_name]
              /\ last' = [op |-> "set_column_name", rk |-> "none", ret |-> NoTable]
              /\ nops' = nops + 1
              /\ UNCHANGED <<column_types, rdd, has_iter_pos, iter_pos, materialized, args>>

(***************************************************************************)
(* Specification of the materialized flag: a table (a, b) that is counted, *)
(* cut with head and tail, renamed and changed in place, the caller going  *)
(* on with a returned table.                                               *)
(***************************************************************************)
NextMaterialize ==
    \/ materialize
    \/ num_rows
    \/ head
    \/ tail
    \/ set_column_name
    \/ add_column_in_sequence
    \/ remove_columns_in_sequence
    \/ continue_with_result

SpecMaterialize == InitCursor /\ [][NextMaterialize]_vars

\* C30: the flag goes from false to true only in materialize() and
\* num_rows(); a call that replaces the row sequence leaves it false, and so
\* does the step to a table a call returned.
C30_MaterializedFlag ==
    [][/\ (~materialized /\ materialized') => last'.op \in {"materialize", "num_rows"}
       /\ last'.rk = "self" => ~materialized']_vars

====
